---- MODULE Spec2Model ----
(***************************************************************************)
(* Verification model of the Jira integration utility (utils/jira.js) and  *)
(* of the update_jira action (update_jira/index.js).                       *)
(*                                                                         *)
(* The module holds one state machine per component, each with its own     *)
(* specification; the variables of the other components stay frozen:      *)
(*   SpecRequest : Jira.request (transport, retry and rate limiting)       *)
(*   SpecRequestLive : Jira.request, every awaited fetch settling          *)
(*   SpecPath    : the workflow graph and the two path searches            *)
(*   SpecDepth   : the two path searches on chains of up to 13 statuses    *)
(*   SpecCache   : getWorkflowStateMachine and its per-instance cache      *)
(*   SpecRepeat  : transitionIssue called twice in a row on one issue      *)
(*   SpecDefault : _getDefaultFieldValue on the fields a screen requires   *)
(*   SpecPush    : handlePushEvent, for every branch                       *)
(*   SpecBatch   : updateByStatus, updateByPR, handlePullRequestEvent      *)
(*   SpecCommits : fetchCommitsAndExtractIssues                            *)
(*   SpecCommitsLive : the same, everything the scan awaits settling      *)
(*   SpecBulk    : updateIssuesFromCommitHistory running transitionIssue   *)
(*                 (and the custom-field update) for every issue key       *)
(***************************************************************************)
EXTENDS Integers, Sequences, FiniteSets, TLC

NULL == "null"

(***************************************************************************)
(* JIRA_CONSTANTS (utils/jira.js, 15-62)                                   *)
(***************************************************************************)
MAX_ATTEMPTS == 3
RETRY_BASE_MS == 1000
BACKOFF_MULTIPLIER == 2
RATE_LIMIT_DEFAULT_S == 60
TOO_MANY_REQUESTS == 429
INTERNAL_SERVER_ERROR == 500
MAX_PATH_DEPTH == 10
TRANSITION_MS == 500
PER_PAGE == 100
COMMIT_SAFETY_LIMIT == 1000

VARIABLES
    reqPc,          \* position of the Jira.request call: idle, attempt, returned, thrown
    reqEndpoint,    \* the endpoint argument of the call
    retryCount,     \* the retryCount argument of the current invocation
    fetches,        \* what every fetch() of the call met, in order
    sleeps,         \* the _sleep() delays of the call (ms), in order
    reqResult       \* the Response returned, or the JiraApiError thrown

reqVars == <<reqPc, reqEndpoint, retryCount, fetches, sleeps, reqResult>>

VARIABLES
    wfDef,          \* the workflow as the backend defines it (statuses, transitions)
    pfPc,           \* define (backend being configured), shortest, all
    pfMachine,      \* the stateMachine object handed to the path search
    pfQuery,        \* the arguments of the last path search
    pfResult        \* what the last path search returned

pathVars == <<wfDef, pfPc, pfMachine, pfQuery, pfResult>>

VARIABLES
    stateMachineCache,  \* this.stateMachineCache: workflow name -> stateMachine object
    heap,               \* the stateMachine objects built so far; an object is its index
    callers,            \* the getWorkflowStateMachine calls, one slot per concurrent caller
    firstReturned,      \* history: per name, the object the first successful call returned
    fetchInFlightThen   \* history: per name, was another fetch of it in flight at that time

cacheVars == <<stateMachineCache, heap, callers, firstReturned, fetchInFlightThen>>

VARIABLES
    bulkPc,         \* updateIssuesFromCommitHistory: idle, running, done
    bulkVariant,    \* "jira" (utils/jira.js) or "action" (update_jira/index.js)
    bulkInput,      \* the issueKeys argument
    bulkArgs,       \* targetStatus, excludeStates, transition fields, customFields
    tasks,          \* one per dispatched call, in dispatch order
    bulkResult,     \* the summary returned
    issueStatus     \* backend: the status name of every issue

bulkVars == <<bulkPc, bulkVariant, bulkInput, bulkArgs, tasks, bulkResult, issueStatus>>

VARIABLES
    fcPc,                   \* fetchCommitsAndExtractIssues: where it is waiting
    fcArgs,                 \* targetStatus, consecutiveDoneThreshold
    page,                   \* the page of commits asked for
    consecutiveDoneCount,
    totalCommitsChecked,
    allIssueKeys,
    batchIssueKeys,         \* the keys extracted from the page at hand
    batchIndex,             \* the key of the batch whose status is being read
    commitsLength,          \* commits.length of the page at hand
    fcResult,               \* the array returned
    fcLast,                 \* the last status check: key, outcome, counter before and after
    fcHistory               \* history: the latest outcomes, what was observed, the last listing

commitVars == <<fcPc, fcArgs, page, consecutiveDoneCount, totalCommitsChecked,
                allIssueKeys, batchIssueKeys, batchIndex, commitsLength,
                fcResult, fcLast, fcHistory>>

VARIABLES
    dfPc,           \* _getDefaultFieldValue: the getFieldOptions call it awaits
    dfArgs,         \* issueKey, fieldId, fieldInfo
    dfFetched,      \* what getFieldOptions returned, by field name
    dfResult        \* the value returned

defaultVars == <<dfPc, dfArgs, dfFetched, dfResult>>

VARIABLES
    pushPc,         \* handlePushEvent: what it awaits
    pushBranch,     \* the branch pushed to
    pushPr,         \* the PR number in the latest commit message, 0 for none
    pushFound,      \* the issues found: by the commit scan, by the PR search
    pushWrites,     \* the updateCustomFields calls of a production push
    pushRequests    \* the Jira requests issued, in order

pushVars == <<pushPc, pushBranch, pushPr, pushFound, pushWrites, pushRequests>>

vars == <<reqVars, pathVars, cacheVars, bulkVars, commitVars, defaultVars, pushVars>>

(***************************************************************************)
(* Jira.request                                                            *)
(***************************************************************************)
Endpoints == {"/test", "/issue/DEX-36"}
Bodies == {"bodyA", "bodyB"}
\* Retry-After header values as the backend sends them (strings)
RetryAfterHeaders == {"1", "2"}
HttpStatuses == {200, 204, 302, 400, 404, 429, 500, 503}

\* what one fetch() can meet: a Response, or a rejection (no response at all)
HttpResponses ==
    [kind : {"response"}, status : HttpStatuses \ {TOO_MANY_REQUESTS},
     retryAfter : {NULL}, body : Bodies]
    \cup
    [kind : {"response"}, status : {TOO_MANY_REQUESTS},
     retryAfter : RetryAfterHeaders \cup {NULL}, body : Bodies]
NetworkFailures ==
    [kind : {"network"}, status : {0}, retryAfter : {NULL}, body : {"stack"}]
FetchOutcomes == HttpResponses \cup NetworkFailures

\* JavaScript's string-to-number coercion of the header in retryAfter * 1000
ToNumber(s) == CASE s = "1" -> 1 [] s = "2" -> 2 [] OTHER -> 0

RECURSIVE Pow(_, _)
Pow(b, e) == IF e = 0 THEN 1 ELSE b * Pow(b, e - 1)

\* response.ok
IsOk(r) == r.status >= 200 /\ r.status <= 299

\* a retry test that allows one retry more
CanRetryThroughCap(rc) == rc <= MAX_ATTEMPTS
\* retryCount < JIRA_CONSTANTS.RETRY.MAX_ATTEMPTS
CanRetry(rc) == rc < MAX_ATTEMPTS

\* a retry condition that would also retry client errors
IsServerErrorAnyFailure(r) == r.status >= 400
\* response.status >= JIRA_CONSTANTS.HTTP_STATUS.INTERNAL_SERVER_ERROR
IsServerError(r) == r.status >= INTERNAL_SERVER_ERROR

\* a delay that forgets the seconds-to-milliseconds conversion
RateLimitDelaySeconds(r) ==
    IF r.retryAfter = NULL THEN RATE_LIMIT_DEFAULT_S
    ELSE ToNumber(r.retryAfter)

\* (response.headers.get('Retry-After') || RATE_LIMIT_DEFAULT_S) * 1000
RateLimitDelay(r) ==
    IF r.retryAfter = NULL THEN RATE_LIMIT_DEFAULT_S * 1000
    ELSE ToNumber(r.retryAfter) * 1000

\* a backoff that grows by the base delay at every retry
BackoffDelayLinear(rc) == RETRY_BASE_MS * (rc + 1)
\* RETRY_BASE_MS * Math.pow(BACKOFF_MULTIPLIER, retryCount)
BackoffDelay(rc) == RETRY_BASE_MS * Pow(BACKOFF_MULTIPLIER, rc)

JiraApiError(statusCode, endpoint, responseBody) ==
    [name |-> "JiraApiError", statusCode |-> statusCode,
     endpoint |-> endpoint, responseBody |-> responseBody]

\* no Response returned and no error thrown yet
NoOutcome == [kind |-> "none"]

ReqIdle ==
    /\ reqPc = "off"
    /\ reqEndpoint = NULL
    /\ retryCount = 0
    /\ fetches = <<>>
    /\ sleeps = <<>>
    /\ reqResult = NoOutcome

ReqInit ==
    /\ reqPc = "idle"
    /\ reqEndpoint = NULL
    /\ retryCount = 0
    /\ fetches = <<>>
    /\ sleeps = <<>>
    /\ reqResult = NoOutcome

\* a caller invokes request(endpoint, options) with the default retryCount = 0
RequestCall(ep) ==
    /\ reqPc \in {"idle", "returned", "thrown"}
    /\ reqPc' = "attempt"
    /\ reqEndpoint' = ep
    /\ retryCount' = 0
    /\ fetches' = <<>>
    /\ sleeps' = <<>>
    /\ reqResult' = NoOutcome

\* 429 with retries left: sleep Retry-After, recurse with retryCount + 1
RequestRateLimited(r) ==
    /\ reqPc = "attempt"
    /\ r.kind = "response"
    /\ r.status = TOO_MANY_REQUESTS
    /\ CanRetry(retryCount)
    /\ fetches' = Append(fetches, r)
    /\ sleeps' = Append(sleeps, RateLimitDelay(r))
    /\ retryCount' = retryCount + 1
    /\ UNCHANGED <<reqPc, reqEndpoint, reqResult>>

\* 5xx with retries left: exponential backoff, recurse with retryCount + 1
RequestServerError(r) ==
    /\ reqPc = "attempt"
    /\ r.kind = "response"
    /\ ~(r.status = TOO_MANY_REQUESTS /\ CanRetry(retryCount))
    /\ ~IsOk(r)
    /\ IsServerError(r)
    /\ CanRetry(retryCount)
    /\ fetches' = Append(fetches, r)
    /\ sleeps' = Append(sleeps, BackoffDelay(retryCount))
    /\ retryCount' = retryCount + 1
    /\ UNCHANGED <<reqPc, reqEndpoint, reqResult>>

\* any other non-OK response: throw JiraApiError(status, endpoint, errorText)
RequestApiError(r) ==
    /\ reqPc = "attempt"
    /\ r.kind = "response"
    /\ ~(r.status = TOO_MANY_REQUESTS /\ CanRetry(retryCount))
    /\ ~IsOk(r)
    /\ ~(IsServerError(r) /\ CanRetry(retryCount))
    /\ fetches' = Append(fetches, r)
    /\ reqPc' = "thrown"
    /\ reqResult' = JiraApiError(r.status, reqEndpoint, r.body)
    /\ UNCHANGED <<reqEndpoint, retryCount, sleeps>>

\* an OK response is returned to the caller
RequestOk(r) ==
    /\ reqPc = "attempt"
    /\ r.kind = "response"
    /\ ~(r.status = TOO_MANY_REQUESTS /\ CanRetry(retryCount))
    /\ IsOk(r)
    /\ fetches' = Append(fetches, r)
    /\ reqPc' = "returned"
    /\ reqResult' = r
    /\ UNCHANGED <<reqEndpoint, retryCount, sleeps>>

\* fetch() rejected with retries left: exponential backoff, recurse
RequestNetworkRetry(r) ==
    /\ reqPc = "attempt"
    /\ r.kind = "network"
    /\ CanRetry(retryCount)
    /\ fetches' = Append(fetches, r)
    /\ sleeps' = Append(sleeps, BackoffDelay(retryCount))
    /\ retryCount' = retryCount + 1
    /\ UNCHANGED <<reqPc, reqEndpoint, reqResult>>

\* fetch() rejected with no retry left: throw JiraApiError(0, endpoint, stack)
RequestNetworkError(r) ==
    /\ reqPc = "attempt"
    /\ r.kind = "network"
    /\ ~CanRetry(retryCount)
    /\ fetches' = Append(fetches, r)
    /\ reqPc' = "thrown"
    /\ reqResult' = JiraApiError(0, reqEndpoint, r.body)
    /\ UNCHANGED <<reqEndpoint, retryCount, sleeps>>

(***************************************************************************)
(* Workflow graph: the part of getWorkflowStateMachine that builds the     *)
(* stateMachine object from the backend's workflow definition              *)
(***************************************************************************)
MaxTransitions == 2

\* the statuses of the workflow, as the backend lists them
WorkflowStatuses ==
    << [id |-> 1, name |-> "To Do"],
       [id |-> 2, name |-> "In Progress"],
       [id |-> 3, name |-> "Done"] >>
StatusIds == {WorkflowStatuses[i].id : i \in 1..Len(WorkflowStatuses)}
StatusNames == {WorkflowStatuses[i].name : i \in 1..Len(WorkflowStatuses)}
TransitionNames == <<"Start", "Finish", "Reopen", "Close", "Deploy">>

\* a set of integer-like keys in the order Object.keys / Object.entries lists them
RECURSIVE KeyOrder(_)
KeyOrder(S) ==
    IF S = {} THEN <<>>
    ELSE LET m == CHOOSE x \in S : \A y \in S : x <= y
         IN <<m>> \o KeyOrder(S \ {m})

\* a map whose set leaves an existing entry as it is
MapSetKeepFirst(entries, key, value) ==
    IF \E i \in 1..Len(entries) : entries[i].key = key
    THEN entries
    ELSE Append(entries, [key |-> key, value |-> value])
\* Map.prototype.set on an insertion-ordered Map kept as a sequence of entries
MapSet(entries, key, value) ==
    IF \E i \in 1..Len(entries) : entries[i].key = key
    THEN [i \in 1..Len(entries) |->
            IF entries[i].key = key THEN [key |-> key, value |-> value]
            ELSE entries[i]]
    ELSE Append(entries, [key |-> key, value |-> value])

\* Map.prototype.get: the value, or NULL (undefined)
MapGet(entries, key) ==
    IF \E i \in 1..Len(entries) : entries[i].key = key
    THEN entries[CHOOSE i \in 1..Len(entries) : entries[i].key = key].value
    ELSE NULL

\* stateMachine.states: one entry per status, keyed by status id
BuildStates(statuses) ==
    [id \in {statuses[i].id : i \in 1..Len(statuses)} |->
        LET last == CHOOSE i \in 1..Len(statuses) :
                       /\ statuses[i].id = id
                       /\ \A j \in 1..Len(statuses) : statuses[j].id = id => j <= i
        IN [id |-> id, name |-> statuses[last].name]]

\* an index that takes the from-list as it is, also when it is empty
FromStatusesAsListed(t, states) == KeyOrder(t.from)
\* fromStatuses of one transition: its from-list, or every status when empty
FromStatuses(t, states) ==
    IF t.from # {} THEN KeyOrder(t.from) ELSE KeyOrder(DOMAIN states)

\* the inner forEach: transitionMap.get(fromStatus).set(to, transitionInfo)
RECURSIVE IndexTransition(_, _, _, _)
IndexTransition(tmap, t, froms, i) ==
    IF i > Len(froms) THEN tmap
    ELSE LET f == froms[i]
             inner == IF f \in DOMAIN tmap THEN tmap[f] ELSE <<>>
             tmap2 == [k \in DOMAIN tmap \cup {f} |->
                          IF k = f THEN MapSet(inner, t.to, t) ELSE tmap[k]]
         IN IndexTransition(tmap2, t, froms, i + 1)

\* the outer forEach over workflow.transitions
RECURSIVE BuildTransitionMap(_, _, _, _)
BuildTransitionMap(tmap, transitions, states, i) ==
    IF i > Len(transitions) THEN tmap
    ELSE BuildTransitionMap(
            IndexTransition(tmap, transitions[i],
                            FromStatuses(transitions[i], states), 1),
            transitions, states, i + 1)

EmptyMap == [k \in {} |-> <<>>]

BuildStateMachine(wf) ==
    LET states == BuildStates(wf.statuses)
    IN [name |-> wf.name,
        states |-> states,
        transitions |-> wf.transitions,
        transitionMap |-> BuildTransitionMap(EmptyMap, wf.transitions, states, 1)]

(***************************************************************************)
(* Path search: findAllTransitionPaths and findShortestTransitionPath      *)
(***************************************************************************)
\* the loop that maps a status name to an id: the last matching entry wins;
\* 0 stands for the initial null (status ids are positive)
ResolveStatusId(sm, name) ==
    LET hits == {id \in DOMAIN sm.states : sm.states[id].name = name}
    IN IF hits = {} THEN 0
       ELSE CHOOSE x \in hits : \A y \in hits : y <= x

\* a search that collects no excluded status
ExcludeStatusIdsNone(sm, excludeStates) == {}
\* excludeStatusIds: every status whose name the exclusion list includes
ExcludeStatusIds(sm, excludeStates) ==
    {id \in DOMAIN sm.states : sm.states[id].name \in excludeStates}

\* a step that takes its source from the from-list of the transition
PathStepFromList(sm, transition, currentId, nextStatusId) ==
    LET source == IF transition.from = {} THEN nextStatusId
                  ELSE CHOOSE x \in transition.from : \A y \in transition.from : x <= y
    IN [id |-> transition.id,
        name |-> transition.name,
        from |-> source,
        to |-> nextStatusId,
        fromName |-> sm.states[source].name,
        toName |-> sm.states[nextStatusId].name]
PathStep(sm, transition, currentId, nextStatusId) ==
    [id |-> transition.id,
     name |-> transition.name,
     from |-> currentId,
     to |-> nextStatusId,
     fromName |-> sm.states[currentId].name,
     toName |-> sm.states[nextStatusId].name]

\* transitionMap.get(currentId), or no entries when undefined
OutEdges(sm, currentId) ==
    IF currentId \in DOMAIN sm.transitionMap THEN sm.transitionMap[currentId]
    ELSE <<>>

ReturnedPath(p) == [kind |-> "path", path |-> p]
ReturnedNull == [kind |-> "null", path |-> <<>>]
ReturnedPaths(ps) == [kind |-> "paths", paths |-> ps]
ThrownValidationError == [kind |-> "JiraValidationError", path |-> <<>>]

\* path.length > JIRA_CONSTANTS.VALIDATION.MAX_PATH_DEPTH
DepthExceeded(path) == Len(path) > MAX_PATH_DEPTH

\* the dfs closure of findAllTransitionPaths; yields the paths it pushes, in order
RECURSIVE Dfs(_, _, _, _, _)
RECURSIVE DfsEdges(_, _, _, _, _, _, _)
Dfs(sm, toStatusId, currentId, path, visited) ==
    IF currentId = toStatusId THEN <<path>>
    ELSE IF DepthExceeded(path) THEN <<>>
    ELSE DfsEdges(sm, toStatusId, currentId, path, visited \cup {currentId},
                  OutEdges(sm, currentId), 1)
DfsEdges(sm, toStatusId, currentId, path, visited, edges, i) ==
    IF i > Len(edges) THEN <<>>
    ELSE LET nextStatusId == edges[i].key
             found == IF nextStatusId \notin visited
                      THEN Dfs(sm, toStatusId, nextStatusId,
                               Append(path, PathStep(sm, edges[i].value,
                                                     currentId, nextStatusId)),
                               visited)
                      ELSE <<>>
         IN found \o DfsEdges(sm, toStatusId, currentId, path, visited, edges, i + 1)

findAllTransitionPaths(sm, fromStatusName, toStatusName) ==
    LET fromStatusId == ResolveStatusId(sm, fromStatusName)
        toStatusId == ResolveStatusId(sm, toStatusName)
    IN IF fromStatusId = 0 \/ toStatusId = 0 THEN ThrownValidationError
       ELSE IF fromStatusId = toStatusId THEN ReturnedPaths(<< <<>> >>)
       ELSE ReturnedPaths(Dfs(sm, toStatusId, fromStatusId, <<>>, {}))

\* a search that never skips an excluded destination
SkipEdgeNever(excludeIds, nextStatusId, toStatusId) == FALSE
\* a search that skips an excluded status only when it is the target
SkipEdgeTargetOnly(excludeIds, nextStatusId, toStatusId) ==
    nextStatusId \in excludeIds /\ nextStatusId = toStatusId
\* if (excludeStatusIds.has(nextStatusId) && nextStatusId !== toStatusId) continue
SkipEdge(excludeIds, nextStatusId, toStatusId) ==
    nextStatusId \in excludeIds /\ nextStatusId # toStatusId

\* a search that takes the first path a depth-first walk meets
BfsDepthFirst(sm, toStatusId, excludeIds, queue, visited) ==
    LET found == Dfs(sm, toStatusId, queue[1].statusId, <<>>, {})
    IN IF found = <<>> THEN ReturnedNull ELSE ReturnedPath(found[1])

\* the while loop of findShortestTransitionPath over the BFS queue
RECURSIVE Bfs(_, _, _, _, _)
RECURSIVE BfsEdges(_, _, _, _, _, _, _, _, _)
Bfs(sm, toStatusId, excludeIds, queue, visited) ==
    IF queue = <<>> THEN ReturnedNull
    ELSE LET currentId == queue[1].statusId
             path == queue[1].path
         IN IF DepthExceeded(path) THEN ReturnedNull
            ELSE BfsEdges(sm, toStatusId, excludeIds, Tail(queue), visited,
                          currentId, path, OutEdges(sm, currentId), 1)
BfsEdges(sm, toStatusId, excludeIds, queue, visited, currentId, path, edges, i) ==
    IF i > Len(edges) THEN Bfs(sm, toStatusId, excludeIds, queue, visited)
    ELSE LET nextStatusId == edges[i].key
             step == PathStep(sm, edges[i].value, currentId, nextStatusId)
         IN IF SkipEdge(excludeIds, nextStatusId, toStatusId)
            THEN BfsEdges(sm, toStatusId, excludeIds, queue, visited,
                          currentId, path, edges, i + 1)
            ELSE IF nextStatusId = toStatusId
            THEN ReturnedPath(Append(path, step))
            ELSE IF nextStatusId \notin visited
            THEN BfsEdges(sm, toStatusId, excludeIds,
                          Append(queue, [statusId |-> nextStatusId,
                                         path |-> Append(path, step)]),
                          visited \cup {nextStatusId},
                          currentId, path, edges, i + 1)
            ELSE BfsEdges(sm, toStatusId, excludeIds, queue, visited,
                          currentId, path, edges, i + 1)

\* a search without the early return for an excluded target
TargetExcludedIgnored(excludeIds, toStatusId) == FALSE
\* the early return for a target named in the exclusion list
TargetExcluded(excludeIds, toStatusId) == toStatusId \in excludeIds

\* a search that tests the exclusion of the target before from = to
findShortestExclusionFirst(sm, fromStatusName, toStatusName, excludeStates) ==
    LET fromStatusId == ResolveStatusId(sm, fromStatusName)
        toStatusId == ResolveStatusId(sm, toStatusName)
        excludeIds == ExcludeStatusIds(sm, excludeStates)
    IN IF fromStatusId = 0 \/ toStatusId = 0 THEN ThrownValidationError
       ELSE IF TargetExcluded(excludeIds, toStatusId) THEN ReturnedNull
       ELSE IF fromStatusId = toStatusId THEN ReturnedPath(<<>>)
       ELSE Bfs(sm, toStatusId, excludeIds,
                <<[statusId |-> fromStatusId, path |-> <<>>]>>, {fromStatusId})

findShortestTransitionPath(sm, fromStatusName, toStatusName, excludeStates) ==
    LET fromStatusId == ResolveStatusId(sm, fromStatusName)
        toStatusId == ResolveStatusId(sm, toStatusName)
        excludeIds == ExcludeStatusIds(sm, excludeStates)
    IN IF fromStatusId = 0 \/ toStatusId = 0 THEN ThrownValidationError
       ELSE IF fromStatusId = toStatusId THEN ReturnedPath(<<>>)
       ELSE IF TargetExcluded(excludeIds, toStatusId) THEN ReturnedNull
       ELSE Bfs(sm, toStatusId, excludeIds,
                <<[statusId |-> fromStatusId, path |-> <<>>]>>, {fromStatusId})

(***************************************************************************)
(***************************************************************************)
(* The path search as a state machine: a backend workflow of up to         *)
(* MaxTransitions transitions is built into a stateMachine and searched    *)
(***************************************************************************)
NoQuery == [from |-> NULL, to |-> NULL, exclude |-> {}]
NoResult == [kind |-> "none", path |-> <<>>]
EmptyWorkflow ==
    [name |-> "Software Workflow", statuses |-> WorkflowStatuses, transitions |-> <<>>]

PathIdle ==
    /\ wfDef = EmptyWorkflow
    /\ pfPc = "off"
    /\ pfMachine = NULL
    /\ pfQuery = NoQuery
    /\ pfResult = NoResult

PathInit ==
    /\ wfDef = EmptyWorkflow
    /\ pfPc = "define"
    /\ pfMachine = NULL
    /\ pfQuery = NoQuery
    /\ pfResult = NoResult

\* the backend's administrator adds a transition to the workflow
BackendAddTransition(from, to) ==
    /\ pfPc = "define"
    /\ Len(wfDef.transitions) < MaxTransitions
    /\ LET i == Len(wfDef.transitions) + 1
       IN wfDef' = [wfDef EXCEPT !.transitions =
                       Append(@, [id |-> i, name |-> TransitionNames[i],
                                  from |-> from, to |-> to])]
    /\ UNCHANGED <<pfPc, pfMachine, pfQuery, pfResult>>

\* findShortestTransitionPath(stateMachine, from, to, excludeStates)
FindShortest(from, to, exclude) ==
    /\ pfPc = "define"
    /\ pfPc' = "shortest"
    /\ pfMachine' = BuildStateMachine(wfDef)
    /\ pfQuery' = [from |-> from, to |-> to, exclude |-> exclude]
    /\ pfResult' = findShortestTransitionPath(pfMachine', from, to, exclude)
    /\ UNCHANGED wfDef

\* findAllTransitionPaths(stateMachine, from, to)
FindAll(from, to) ==
    /\ pfPc = "define"
    /\ pfPc' = "all"
    /\ pfMachine' = BuildStateMachine(wfDef)
    /\ pfQuery' = [from |-> from, to |-> to, exclude |-> {}]
    /\ pfResult' = findAllTransitionPaths(pfMachine', from, to)
    /\ UNCHANGED wfDef

(***************************************************************************)
(* The path search on long workflows: a chain of up to MaxChain statuses,  *)
(* each with a transition to the next, with or without a global transition *)
(* back to the first status                                                *)
(***************************************************************************)
MaxChain == 13

ChainNames ==
    <<"S1", "S2", "S3", "S4", "S5", "S6", "S7", "S8", "S9", "S10", "S11", "S12",
      "S13", "S14", "S15", "S16">>

\* the workflow the backend lists: statuses 1..n, Advance from i to i + 1
ChainWorkflow(n, withReopen) ==
    [name |-> "Chain Workflow",
     statuses |-> [i \in 1..n |-> [id |-> i, name |-> ChainNames[i]]],
     transitions |->
        [i \in 1..(n - 1) |->
            [id |-> 100 + i, name |-> "Advance", from |-> {i}, to |-> i + 1]]
        \o (IF withReopen
            THEN <<[id |-> 100, name |-> "Reopen", from |-> {}, to |-> 1]>>
            ELSE <<>>)]

WorkflowStatusNames(wf) == {wf.statuses[i].name : i \in 1..Len(wf.statuses)}

DepthInit ==
    /\ wfDef \in {ChainWorkflow(n, r) : n \in 2..MaxChain, r \in BOOLEAN}
    /\ pfPc = "define"
    /\ pfMachine = NULL
    /\ pfQuery = NoQuery
    /\ pfResult = NoResult

(***************************************************************************)
(* getWorkflowStateMachine and this.stateMachineCache                      *)
(***************************************************************************)
MaxFetches == 3

Callers == {"c1", "c2"}
WorkflowNames == {"Software Workflow", "Support Workflow"}

\* the workflows the backend holds under each name
BackendWorkflow(name) ==
    IF name = "Software Workflow"
    THEN [name |-> name, statuses |-> WorkflowStatuses,
          transitions |->
            << [id |-> 11, name |-> "Start", from |-> {1}, to |-> 2],
               [id |-> 21, name |-> "Finish", from |-> {2}, to |-> 3],
               [id |-> 31, name |-> "Reopen", from |-> {}, to |-> 1] >>]
    ELSE [name |-> name, statuses |-> WorkflowStatuses,
          transitions |->
            << [id |-> 41, name |-> "Resolve", from |-> {1, 2}, to |-> 3] >>]

\* this.stateMachineCache.has(workflowName)
CacheHas(cache, workflowName) == workflowName \in DOMAIN cache

\* a cache write that stores the entry under one shared key
CacheSetSharedKey(cache, workflowName, object) ==
    [k \in DOMAIN cache \cup {"Software Workflow"} |-> object]
\* a cache write that keeps the entry already stored under the name
CacheSetKeepFirst(cache, workflowName, object) ==
    [k \in DOMAIN cache \cup {workflowName} |->
        IF k \in DOMAIN cache THEN cache[k] ELSE object]
\* this.stateMachineCache.set(workflowName, stateMachine)
CacheSet(cache, workflowName, object) ==
    [k \in DOMAIN cache \cup {workflowName} |->
        IF k = workflowName THEN object ELSE cache[k]]

\* a lookup that never finds the entry
CacheLookupMiss(cache, workflowName) == FALSE
\* the cache check at the head of getWorkflowStateMachine
CacheLookup(cache, workflowName) == CacheHas(cache, workflowName)

IdleCaller ==
    [pc |-> "idle", name |-> NULL, fetched |-> FALSE, result |-> 0,
     error |-> NULL, firstThen |-> 0, racedThen |-> FALSE,
     values |-> NULL, afterFailure |-> FALSE]

CacheIdle ==
    /\ stateMachineCache = [k \in {} |-> 0]
    /\ heap = <<>>
    /\ callers = [c \in {} |-> IdleCaller]
    /\ firstReturned = [n \in WorkflowNames |-> 0]
    /\ fetchInFlightThen = [n \in WorkflowNames |-> FALSE]

\* new Jira(...): an empty Map
CacheInit ==
    /\ stateMachineCache = [k \in {} |-> 0]
    /\ heap = <<>>
    /\ callers = [c \in Callers |-> IdleCaller]
    /\ firstReturned = [n \in WorkflowNames |-> 0]
    /\ fetchInFlightThen = [n \in WorkflowNames |-> FALSE]

NotRunning(c) == callers[c].pc \in {"idle", "returned", "thrown"}
\* history: a fetch of the name has failed by the time a call for it starts
FailedBefore(name) ==
    \E d \in Callers : /\ callers[d].pc = "thrown"
                        /\ callers[d].fetched
                        /\ callers[d].name = name
FetchingOthers(c, name) ==
    {d \in Callers \ {c} : callers[d].pc = "fetching" /\ callers[d].name = name}

\* history kept when a call returns object obj for name
NoteReturn(c, name, obj) ==
    IF firstReturned[name] = 0
    THEN /\ firstReturned' = [firstReturned EXCEPT ![name] = obj]
         /\ fetchInFlightThen' =
               [fetchInFlightThen EXCEPT ![name] = FetchingOthers(c, name) # {}]
    ELSE UNCHANGED <<firstReturned, fetchInFlightThen>>

\* getWorkflowStateMachine(workflowName) with an empty or non-string name
GetStateMachineInvalid(c) ==
    /\ NotRunning(c)
    /\ callers' = [callers EXCEPT ![c] =
          [IdleCaller EXCEPT !.pc = "thrown", !.name = "",
                             !.error = "JiraValidationError"]]
    /\ UNCHANGED <<stateMachineCache, heap, firstReturned, fetchInFlightThen>>

\* the call finds the name in the cache and returns the cached object
GetStateMachineCached(c, name) ==
    /\ NotRunning(c)
    /\ CacheLookup(stateMachineCache, name)
    /\ callers' = [callers EXCEPT ![c] =
          [IdleCaller EXCEPT !.pc = "returned", !.name = name,
                             !.result = stateMachineCache[name],
                             !.afterFailure = FailedBefore(name),
                             !.firstThen = firstReturned[name],
                             !.racedThen = fetchInFlightThen[name]]]
    /\ NoteReturn(c, name, stateMachineCache[name])
    /\ UNCHANGED <<stateMachineCache, heap>>

\* the call misses the cache and issues the workflow search request
GetStateMachineFetch(c, name) ==
    /\ NotRunning(c)
    /\ ~CacheLookup(stateMachineCache, name)
    /\ Len(heap) + Cardinality({d \in Callers : callers[d].pc = "fetching"})
          < MaxFetches
    /\ callers' = [callers EXCEPT ![c] =
          [IdleCaller EXCEPT !.pc = "fetching", !.name = name, !.fetched = TRUE,
                             !.afterFailure = FailedBefore(name),
                             !.firstThen = firstReturned[name],
                             !.racedThen = fetchInFlightThen[name]]]
    /\ UNCHANGED <<stateMachineCache, heap, firstReturned, fetchInFlightThen>>

\* the response lists the workflow: build the stateMachine, cache it, return it
GetStateMachineBuilt(c) ==
    /\ callers[c].pc = "fetching"
    /\ LET name == callers[c].name
           obj == Len(heap) + 1
       IN /\ heap' = Append(heap, BuildStateMachine(BackendWorkflow(name)))
          /\ stateMachineCache' = CacheSet(stateMachineCache, name, obj)
          /\ callers' = [callers EXCEPT ![c].pc = "returned", ![c].result = obj,
                                        ![c].values = "[workflow]"]
          /\ NoteReturn(c, name, obj)

\* a call that stores an empty graph under the name before it throws
GetStateMachineNotFoundCached(c) ==
    /\ callers[c].pc = "fetching"
    /\ heap' = Append(heap, BuildStateMachine(
                   [name |-> callers[c].name, statuses |-> <<>>, transitions |-> <<>>]))
    /\ stateMachineCache' = CacheSet(stateMachineCache, callers[c].name, Len(heap) + 1)
    /\ callers' = [callers EXCEPT ![c].pc = "thrown", ![c].values = "[]",
                                  ![c].error = "JiraWorkflowError"]
    /\ UNCHANGED <<firstReturned, fetchInFlightThen>>
\* the response lists no workflow: JiraWorkflowError, nothing cached
GetStateMachineNotFound(c) ==
    /\ callers[c].pc = "fetching"
    /\ callers' = [callers EXCEPT ![c].pc = "thrown", ![c].values = "[]",
                                  ![c].error = "JiraWorkflowError"]
    /\ UNCHANGED <<stateMachineCache, heap, firstReturned, fetchInFlightThen>>

\* this.request throws: the JiraApiError is rethrown, nothing cached
GetStateMachineRequestFailed(c) ==
    /\ callers[c].pc = "fetching"
    /\ callers' = [callers EXCEPT ![c].pc = "thrown",
                                  ![c].error = "JiraApiError"]
    /\ UNCHANGED <<stateMachineCache, heap, firstReturned, fetchInFlightThen>>

(***************************************************************************)
(* transitionIssue, updateIssueWithCustomFields and the two                *)
(* updateIssuesFromCommitHistory functions, run against a Jira backend     *)
(* that holds the issues of project DEX under the Software Workflow        *)
(***************************************************************************)
MaxKeys == 2

IssueKeys == {"DEX-36", "DEX-37"}
InputKeys == {"DEX-36", "DEX-37", "dex-36", "DEX"}
TargetStatuses == {"Done", "To Do", "Deployed"}
DEFAULT_EXCLUDE_STATES == {"Blocked", "Rejected"}
ExcludeLists == {DEFAULT_EXCLUDE_STATES, {"In Progress"}, {"Done"}}
NoFields == [f \in {} |-> ""]
TransitionFieldChoices == {NoFields, [resolution |-> "Fixed"], [resolution |-> ""]}
ResolutionOptionLists == {<<"Fixed", "Done">>, <<"Fixed">>, <<>>}

RECURSIVE SeqsUpTo(_, _)
SeqsUpTo(S, n) ==
    IF n = 0 THEN {<<>>}
    ELSE LET shorter == SeqsUpTo(S, n - 1)
         IN shorter \cup {Append(s, x) : s \in {t \in shorter : Len(t) = n - 1}, x \in S}

\* the issueKeys arguments tried: every list of up to MaxKeys keys
InputLists == SeqsUpTo(InputKeys, MaxKeys)

\* issueKey.trim().toUpperCase() on the keys of InputKeys
ToUpperCase(s) == IF s = "dex-36" THEN "DEX-36" ELSE s
\* ISSUE_KEY_PATTERN.test(s), the pattern being /^[A-Z][A-Z0-9]+-\d+$/
MatchesIssueKeyPattern(s) == s \in {"DEX-36", "DEX-37"}
\* const [ projectKey ] = issueKey.split('-')
extractProjectKey(issueKey) ==
    IF issueKey \in {"DEX-36", "DEX-37", "dex-36"} THEN "DEX" ELSE issueKey

\* update_jira: isValidIssueKey tests the key as given
isValidIssueKey(issueKey) == MatchesIssueKeyPattern(issueKey)

\* a filter that keeps every valid key, repeated or not
deduplicateKeepAll(keys, i, uniqueKeys) ==
    SelectSeq(keys, LAMBDA key : isValidIssueKey(key))
\* update_jira: deduplicateIssueKeys, a Set filled in input order
RECURSIVE deduplicateIssueKeys(_, _, _)
deduplicateIssueKeys(keys, i, uniqueKeys) ==
    IF i > Len(keys) THEN uniqueKeys
    ELSE IF isValidIssueKey(keys[i])
              /\ ~\E j \in 1..Len(uniqueKeys) : uniqueKeys[j] = keys[i]
    THEN deduplicateIssueKeys(keys, i + 1, Append(uniqueKeys, keys[i]))
    ELSE deduplicateIssueKeys(keys, i + 1, uniqueKeys)

JiraValidationError(message, field, value) ==
    [name |-> "JiraValidationError", message |-> message,
     field |-> field, value |-> value]
JiraTransitionError(message, issueKey, fromStatus, toStatus) ==
    [name |-> "JiraTransitionError", message |-> message, issueKey |-> issueKey,
     fromStatus |-> fromStatus, toStatus |-> toStatus]
JiraWorkflowError(message, workflowName, projectKey) ==
    [name |-> "JiraWorkflowError", message |-> message,
     workflowName |-> workflowName, projectKey |-> projectKey]
RequestError(endpoint) ==
    [name |-> "JiraApiError", message |-> "Jira API error",
     statusCode |-> INTERNAL_SERVER_ERROR, endpoint |-> endpoint,
     responseBody |-> ""]
NoError == [name |-> NULL, message |-> NULL]

\* r.reason?.issueKey: NULL stands for undefined
ReasonIssueKey(reason) ==
    IF "issueKey" \in DOMAIN reason THEN reason.issueKey ELSE NULL

\* the backend: project DEX uses the Software Workflow
ProjectWorkflow(projectKey) == "Software Workflow"
StatusIdOf(statusName) ==
    WorkflowStatuses[CHOOSE i \in 1..Len(WorkflowStatuses) :
                        WorkflowStatuses[i].name = statusName].id
StatusNameOf(statusId) ==
    WorkflowStatuses[CHOOSE i \in 1..Len(WorkflowStatuses) :
                        WorkflowStatuses[i].id = statusId].name
\* GET /issue/{key}/transitions: the transitions open to an issue in statusName
LiveOpen(statusName, t) == t.from = {} \/ StatusIdOf(statusName) \in t.from
LiveTransitions(statusName) ==
    LET all == BackendWorkflow("Software Workflow").transitions
        open == SelectSeq(all, LAMBDA t : LiveOpen(statusName, t))
    IN [i \in 1..Len(open) |->
          [id |-> open[i].id, name |-> open[i].name,
           toName |-> StatusNameOf(open[i].to)]]
\* expand=transitions.fields: the Finish transition requires a resolution
RequiredFields(transitionId) == IF transitionId = 21 THEN {"resolution"} ELSE {}
ResolutionId(name) == IF name = "Done" THEN "10000" ELSE "10001"

\* availableTransitions.find(t => t.id === transition.id ||
\*    (t.to.name === transition.toName && t.name === transition.name))
MatchesPlanned(t, planned) ==
    t.id = planned.id \/ (t.toName = planned.toName /\ t.name = planned.name)
\* a lookup that falls back on the first available transition
FindActualOrFirst(live, planned) ==
    LET hits == {i \in 1..Len(live) : MatchesPlanned(live[i], planned)}
    IN IF hits # {} THEN live[CHOOSE i \in hits : \A j \in hits : i <= j].id
       ELSE IF Len(live) > 0 THEN live[1].id
       ELSE 0
\* a lookup that takes the planned id without a look at the live list
FindActualPlanned(live, planned) == planned.id
FindActual(live, planned) ==
    LET hits == {i \in 1..Len(live) : MatchesPlanned(live[i], planned)}
    IN IF hits = {} THEN 0 ELSE live[CHOOSE i \in hits : \A j \in hits : i <= j].id

\* _getDefaultFieldValue for resolution: "Done", else the first option, else null
getDefaultFieldValue(options) ==
    IF \E i \in 1..Len(options) : options[i] = "Done" THEN ResolutionId("Done")
    ELSE IF Len(options) > 0 THEN ResolutionId(options[1])
    ELSE NULL

\* prepareFields: a resolution given by name becomes { id } when the name is listed
prepareFields(fields, options) ==
    IF "resolution" \in DOMAIN fields
    THEN IF \E i \in 1..Len(options) : options[i] = fields.resolution
         THEN [resolution |-> ResolutionId(fields.resolution)]
         ELSE NoFields
    ELSE fields

NewTask(raw) ==
    [raw |-> raw, key |-> NULL, pc |-> "new", fields |-> NoFields,
     current |-> NULL, sm |-> 0, searched |-> FALSE, path |-> <<>>, step |-> 0,
     available |-> <<>>, actual |-> 0, payload |-> NoFields, log |-> <<>>,
     returned |-> FALSE,
     error |-> NoError, settledAt |-> 0]

Settled(task) == task.pc \in {"fulfilled", "rejected"}

\* the task issues a request (or starts a sleep) and waits for it at pc
Issue(task, pc, by, req, arg, fields) ==
    [task EXCEPT !.pc = pc,
                 !.log = Append(@, [by |-> by, req |-> req, arg |-> arg,
                                    fields |-> fields])]
Throw(task, error) == [task EXCEPT !.pc = "rejected", !.error = error]

\* transitionIssue up to its first await: validation, then the status GET
StartTransition(task, fields) ==
    LET validatedKey == IF MatchesIssueKeyPattern(ToUpperCase(task.raw))
                        THEN ToUpperCase(task.raw) ELSE NULL
    IN IF validatedKey = NULL
       THEN Throw(task, JiraValidationError("Invalid issue key format",
                                            "issueKey", task.raw))
       ELSE Issue([task EXCEPT !.key = validatedKey, !.fields = fields],
                  "issue", "transitionIssue", "GET issue", 0, NoFields)

\* the deployment custom fields of a branch configuration, when it has any
DeploymentFields == [customfield_11473 |-> "staging"]
\* prepareCustomFields: the values as given (functions are called for theirs)
prepareCustomFields(customFields) == [f \in DOMAIN customFields |-> customFields[f]]

\* an update that hands the custom fields to transitionIssue with the others
StartUpdateCombined(task, fields) ==
    StartTransition(task, [f \in DOMAIN fields \cup DOMAIN DeploymentFields |->
                              IF f \in DOMAIN fields THEN fields[f]
                              ELSE DeploymentFields[f]])
\* updateIssueWithCustomFields up to its first await
StartUpdate(task, fields) ==
    IF "resolution" \in DOMAIN fields
    THEN Issue(task, "prepare", "prepareFields", "GET resolution", 0, NoFields)
    ELSE StartTransition(task, prepareFields(fields, <<>>))

\* the callers that update an issue through updateIssueWithCustomFields
ThroughUpdate(variant) == variant \in {"action", "handlePullRequestEvent"}

\* an update that skips the PUT when the issue was already at the target
FinishTransitionSkipNoOp(variant, customFields, task) ==
    LET t == [task EXCEPT !.returned = TRUE]
    IN IF ThroughUpdate(variant) /\ customFields /\ Len(task.log) > 1
       THEN Issue(t, "put", "updateCustomFields", "PUT issue", 0,
                  prepareCustomFields(DeploymentFields))
       ELSE [t EXCEPT !.pc = "fulfilled"]
\* transitionIssue returned true: updateIssueWithCustomFields goes on to the PUT
FinishTransition(variant, customFields, task) ==
    LET t == [task EXCEPT !.returned = TRUE]
    IN IF ThroughUpdate(variant) /\ customFields
       THEN Issue(t, "put", "updateCustomFields", "PUT issue", 0,
                  prepareCustomFields(DeploymentFields))
       ELSE [t EXCEPT !.pc = "fulfilled"]

\* a transition the check for the target status never stops
AtTargetNever(currentStatusName, targetStatusName) == FALSE
\* if (currentStatusName === targetStatusName)
AtTarget(currentStatusName, targetStatusName) == currentStatusName = targetStatusName

\* the path search and what transitionIssue does with its result
\* a search result that is never taken for a missing path
NoPathNever(found) == FALSE
\* if (!shortestPath)
NoPath(found) == found.kind = "null"
Plan(variant, args, task, object, stateMachine) ==
    LET found == findShortestTransitionPath(stateMachine, task.current,
                                            args.target, args.exclude)
        t == [task EXCEPT !.sm = object, !.searched = TRUE]
    IN IF found.kind = "JiraValidationError"
       THEN Throw(t, JiraValidationError("Status not found", "statusName", args.target))
       ELSE IF NoPath(found)
       THEN Throw(t, JiraTransitionError("No transition path found", t.key,
                                         t.current, args.target))
       ELSE IF Len(found.path) = 0
       THEN FinishTransition(variant, args.customFields, t)
       ELSE Issue([t EXCEPT !.path = found.path, !.step = 1],
                  "transitions", "transitionIssue", "GET transitions", 0, NoFields)

\* a step that submits its transition twice
PostTransitionTwice(task, payload) ==
    Issue(Issue([task EXCEPT !.payload = payload],
                "post", "transitionIssue", "POST transition", task.actual, payload),
          "post", "transitionIssue", "POST transition", task.actual, payload)
\* the transition POST of the current step, with the payload built for it
PostTransition(task, payload) ==
    Issue([task EXCEPT !.payload = payload],
          "post", "transitionIssue", "POST transition", task.actual, payload)

\* the statuses the issues are in when the batch starts
InitialStatuses ==
    {[k \in IssueKeys |-> IF k = "DEX-36" THEN first ELSE "Done"] :
        first \in StatusNames}

BulkIdle ==
    /\ bulkPc = "off"
    /\ bulkVariant = NULL
    /\ bulkInput = <<>>
    /\ bulkArgs = [target |-> NULL, exclude |-> {}, fields |-> NoFields,
                   customFields |-> FALSE]
    /\ tasks = <<>>
    /\ bulkResult = [successful |-> 0, failed |-> 0, errors |-> <<>>]
    /\ issueStatus = [k \in {} |-> NULL]

BulkInit ==
    /\ bulkPc = "idle"
    /\ bulkVariant = NULL
    /\ bulkInput = <<>>
    /\ bulkArgs = [target |-> NULL, exclude |-> {}, fields |-> NoFields,
                   customFields |-> FALSE]
    /\ tasks = <<>>
    /\ bulkResult = [successful |-> 0, failed |-> 0, errors |-> <<>>]
    /\ issueStatus \in InitialStatuses

\* the order in which the promises of the batch settle
RECURSIVE StampDispatched(_, _, _)
StampDispatched(ts, i, n) ==
    IF i > Len(ts) THEN ts
    ELSE IF Settled(ts[i])
    THEN StampDispatched([ts EXCEPT ![i].settledAt = n + 1], i + 1, n + 1)
    ELSE StampDispatched(ts, i + 1, n)

SetTask(k, task) ==
    tasks' = [tasks EXCEPT ![k] =
                IF Settled(task)
                THEN [task EXCEPT !.settledAt =
                         1 + Cardinality({j \in 1..Len(tasks) : Settled(tasks[j])})]
                ELSE task]

\* Jira.updateIssuesFromCommitHistory: issueKeys.map(transitionIssue)
DispatchJira(issueKeys, fields) ==
    StampDispatched([i \in 1..Len(issueKeys) |->
                        StartTransition(NewTask(issueKeys[i]), fields)], 1, 0)
\* update_jira updateIssuesFromCommitHistory: uniqueIssueKeys.map(updateIssueWithCustomFields)
DispatchAction(issueKeys, fields) ==
    LET uniqueIssueKeys == deduplicateIssueKeys(issueKeys, 1, <<>>)
    IN StampDispatched([i \in 1..Len(uniqueIssueKeys) |->
                           StartUpdate(NewTask(uniqueIssueKeys[i]), fields)], 1, 0)

\* a batch that stops waiting at the first rejection
ReadyToSettleFirstRejection(ts) ==
    \/ \A i \in 1..Len(ts) : Settled(ts[i])
    \/ \E i \in 1..Len(ts) : ts[i].pc = "rejected"
\* Promise.allSettled resolves when every promise has settled
ReadyToSettle(ts) == \A i \in 1..Len(ts) : Settled(ts[i])

\* results.filter / failed.map: the summary of the batch
Summary(variant, ts) ==
    LET successful == SelectSeq(ts, LAMBDA t : t.pc = "fulfilled")
        failed == SelectSeq(ts, LAMBDA t : t.pc = "rejected")
    IN [successful |-> Len(successful),
        failed |-> Len(failed),
        errors |-> [i \in 1..Len(failed) |->
                      IF variant = "jira" THEN failed[i].error.message
                      ELSE [message |-> failed[i].error.message,
                            issueKey |-> ReasonIssueKey(failed[i].error)]]]

\* the body of updateIssuesFromCommitHistory up to Promise.allSettled
Dispatch(variant, issueKeys, targetStatus, excludeStates, fields, customFields) ==
    /\ variant = "jira" => ~customFields
    /\ bulkVariant' = variant
    /\ bulkInput' = issueKeys
    /\ bulkArgs' = [target |-> targetStatus, exclude |-> excludeStates,
                    fields |-> fields, customFields |-> customFields]
    /\ IF Len(issueKeys) = 0
       THEN /\ bulkPc' = "done"
            /\ tasks' = <<>>
       ELSE /\ bulkPc' = "running"
            /\ tasks' = IF variant = "jira" THEN DispatchJira(issueKeys, fields)
                        ELSE DispatchAction(issueKeys, fields)
    /\ UNCHANGED <<bulkResult, issueStatus, stateMachineCache, heap>>

\* either updateIssuesFromCommitHistory is called with some arguments
BulkCall ==
    /\ bulkPc = "idle"
    /\ \E variant \in {"jira", "action"}, issueKeys \in InputLists,
          targetStatus \in TargetStatuses, excludeStates \in ExcludeLists,
          fields \in TransitionFieldChoices, customFields \in BOOLEAN :
            Dispatch(variant, issueKeys, targetStatus, excludeStates, fields,
                     customFields)

\* prepareFields: the resolution options arrive (none when the request failed)
PrepareFieldsDone(k, options) ==
    /\ tasks[k].pc = "prepare"
    /\ SetTask(k, StartTransition(tasks[k], prepareFields(bulkArgs.fields, options)))
    /\ UNCHANGED <<bulkPc, bulkVariant, bulkInput, bulkArgs, bulkResult,
                   issueStatus, stateMachineCache, heap>>

\* the status GET answers: return true at the target, else fetch the project
IssueFetched(k) ==
    /\ tasks[k].pc = "issue"
    /\ LET t == [tasks[k] EXCEPT !.current = issueStatus[tasks[k].key]]
       IN SetTask(k, IF AtTarget(t.current, bulkArgs.target)
                     THEN FinishTransition(bulkVariant, bulkArgs.customFields, t)
                     ELSE Issue(t, "project", "transitionIssue", "GET project",
                                0, NoFields))
    /\ UNCHANGED <<bulkPc, bulkVariant, bulkInput, bulkArgs, bulkResult,
                   issueStatus, stateMachineCache, heap>>

\* getProjectWorkflowName: the project answers, the workflow scheme is asked for
ProjectFetched(k) ==
    /\ tasks[k].pc = "project"
    /\ SetTask(k, Issue(tasks[k], "scheme", "transitionIssue",
                        "GET workflowscheme", 0, NoFields))
    /\ UNCHANGED <<bulkPc, bulkVariant, bulkInput, bulkArgs, bulkResult,
                   issueStatus, stateMachineCache, heap>>

\* the scheme answers; getWorkflowStateMachine finds the cache entry or fetches
SchemeFetched(k) ==
    /\ tasks[k].pc = "scheme"
    /\ LET workflowName == ProjectWorkflow(extractProjectKey(tasks[k].key))
       IN SetTask(k, IF CacheLookup(stateMachineCache, workflowName)
                     THEN Plan(bulkVariant, bulkArgs, tasks[k],
                               stateMachineCache[workflowName],
                               heap[stateMachineCache[workflowName]])
                     ELSE Issue(tasks[k], "workflow", "transitionIssue",
                                "GET workflow", 0, NoFields))
    /\ UNCHANGED <<bulkPc, bulkVariant, bulkInput, bulkArgs, bulkResult,
                   issueStatus, stateMachineCache, heap>>

\* the scheme list is empty: JiraWorkflowError
SchemeMissing(k) ==
    /\ tasks[k].pc = "scheme"
    /\ SetTask(k, Throw(tasks[k], JiraWorkflowError("No workflow scheme found",
                           NULL, extractProjectKey(tasks[k].key))))
    /\ UNCHANGED <<bulkPc, bulkVariant, bulkInput, bulkArgs, bulkResult,
                   issueStatus, stateMachineCache, heap>>

\* a fetch that merges what it built into the graph already stored for the name
StoreGraphMerged(objects, stateMachine) ==
    Append([i \in 1..Len(objects) |->
               IF objects[i].name = stateMachine.name
               THEN [objects[i] EXCEPT !.transitions = @ \o stateMachine.transitions]
               ELSE objects[i]],
           stateMachine)
\* const stateMachine = { ... }: each fetch builds an object of its own
StoreGraph(objects, stateMachine) == Append(objects, stateMachine)

\* the workflow answers: build the stateMachine, cache it, search the path
WorkflowFetched(k) ==
    /\ tasks[k].pc = "workflow"
    /\ LET workflowName == ProjectWorkflow(extractProjectKey(tasks[k].key))
           stateMachine == BuildStateMachine(BackendWorkflow(workflowName))
           object == Len(heap) + 1
       IN /\ heap' = StoreGraph(heap, stateMachine)
          /\ stateMachineCache' = CacheSet(stateMachineCache, workflowName, object)
          /\ SetTask(k, Plan(bulkVariant, bulkArgs, tasks[k], object, stateMachine))
    /\ UNCHANGED <<bulkPc, bulkVariant, bulkInput, bulkArgs, bulkResult, issueStatus>>

\* the workflow search lists nothing: JiraWorkflowError
WorkflowNotFound(k) ==
    /\ tasks[k].pc = "workflow"
    /\ LET workflowName == ProjectWorkflow(extractProjectKey(tasks[k].key))
       IN SetTask(k, Throw(tasks[k], JiraWorkflowError("Workflow not found",
                                                       workflowName, NULL)))
    /\ UNCHANGED <<bulkPc, bulkVariant, bulkInput, bulkArgs, bulkResult,
                   issueStatus, stateMachineCache, heap>>

\* getTransitions answers: match the planned step against the live list
TransitionsFetched(k) ==
    /\ tasks[k].pc = "transitions"
    /\ LET task == tasks[k]
           transition == task.path[task.step]
           availableTransitions == LiveTransitions(issueStatus[task.key])
           actual == FindActual(availableTransitions, transition)
       IN SetTask(k, IF actual = 0
                     THEN Throw([task EXCEPT !.available = availableTransitions],
                                JiraTransitionError("Transition not available",
                                   task.key, transition.fromName, transition.toName))
                     ELSE Issue([task EXCEPT !.available = availableTransitions,
                                   !.actual = actual,
                                   !.payload = IF task.step = Len(task.path)
                                               THEN task.fields ELSE NoFields],
                                "details", "transitionIssue",
                                "GET transition details", actual, NoFields))
    /\ UNCHANGED <<bulkPc, bulkVariant, bulkInput, bulkArgs, bulkResult,
                   issueStatus, stateMachineCache, heap>>

\* getTransitionDetails answers: ask for a default of a missing required field,
\* or submit the transition
\* !transitionPayload.fields[fieldId]: an absent field, or one holding a falsy value
NotProvided(payload, fieldId) ==
    fieldId \notin DOMAIN payload \/ payload[fieldId] \in {"", NULL}

DetailsFetched(k) ==
    /\ tasks[k].pc = "details"
    /\ LET task == tasks[k]
           live == LiveTransitions(issueStatus[task.key])
           listed == \E i \in 1..Len(live) : live[i].id = task.actual
           required == IF listed THEN RequiredFields(task.actual) ELSE {}
       IN SetTask(k, IF \E fieldId \in required : NotProvided(task.payload, fieldId)
                     THEN Issue(task, "options", "transitionIssue",
                                "GET resolution", 0, NoFields)
                     ELSE PostTransition(task, task.payload))
    /\ UNCHANGED <<bulkPc, bulkVariant, bulkInput, bulkArgs, bulkResult,
                   issueStatus, stateMachineCache, heap>>

\* getFieldOptions answers (nothing when its request failed): the default
\* fills the payload, or the required field stays missing
\* a default that is never taken for missing
StillMissingNever(defaultValue) == FALSE
\* the else branch of if (defaultValue): the field joins missingFields
StillMissing(defaultValue) == defaultValue = NULL

OptionsFetched(k, options) ==
    /\ tasks[k].pc = "options"
    /\ LET task == tasks[k]
           transition == task.path[task.step]
           defaultValue == getDefaultFieldValue(options)
       IN SetTask(k, IF StillMissing(defaultValue)
                     THEN Throw(task, JiraTransitionError(
                                   "Required fields cannot be populated",
                                   task.key, transition.fromName, transition.toName))
                     ELSE PostTransition(task,
                             [f \in DOMAIN task.payload \cup {"resolution"} |->
                                 IF f = "resolution" THEN defaultValue
                                 ELSE task.payload[f]]))
    /\ UNCHANGED <<bulkPc, bulkVariant, bulkInput, bulkArgs, bulkResult,
                   issueStatus, stateMachineCache, heap>>

\* the next iteration of the loop over shortestPath: its getTransitions request
NextStep(task) ==
    Issue([task EXCEPT !.step = @ + 1, !.available = <<>>, !.actual = 0,
                       !.payload = NoFields],
          "transitions", "transitionIssue", "GET transitions", 0, NoFields)
\* a loop that goes on to its next iteration without the delay
BetweenStepsNoDelay(task) == NextStep(task)
\* if (i < shortestPath.length - 1) await this._sleep(TRANSITION_MS)
BetweenSteps(task) ==
    Issue(task, "sleep", "transitionIssue", "sleep", TRANSITION_MS, NoFields)

\* a backend that answers a POST without moving the issue
AppliedNot(statuses, key, toName) == statuses
\* the backend moves the issue to the destination of the posted transition
Applied(statuses, key, toName) == [statuses EXCEPT ![key] = toName]

\* the backend applies the posted transition; sleep before the next step, or return
PostCompleted(k) ==
    /\ tasks[k].pc = "post"
    /\ LET task == tasks[k]
           live == LiveTransitions(issueStatus[task.key])
       IN /\ \E i \in 1..Len(live) :
                /\ live[i].id = task.actual
                /\ issueStatus' = Applied(issueStatus, task.key, live[i].toName)
          /\ SetTask(k, IF task.step < Len(task.path)
                        THEN BetweenSteps(task)
                        ELSE FinishTransition(bulkVariant, bulkArgs.customFields, task))
    /\ UNCHANGED <<bulkPc, bulkVariant, bulkInput, bulkArgs, bulkResult,
                   stateMachineCache, heap>>

\* the inter-step delay has elapsed: the next step asks for the live transitions
SleepElapsed(k) ==
    /\ tasks[k].pc = "sleep"
    /\ SetTask(k, NextStep(tasks[k]))
    /\ UNCHANGED <<bulkPc, bulkVariant, bulkInput, bulkArgs, bulkResult,
                   issueStatus, stateMachineCache, heap>>

\* the custom-field PUT answers
PutCompleted(k) ==
    /\ tasks[k].pc = "put"
    /\ SetTask(k, [tasks[k] EXCEPT !.pc = "fulfilled"])
    /\ UNCHANGED <<bulkPc, bulkVariant, bulkInput, bulkArgs, bulkResult,
                   issueStatus, stateMachineCache, heap>>

\* this.request throws a JiraApiError and the caller rethrows it
RequestFailed(k) ==
    /\ tasks[k].pc \in {"issue", "project", "scheme", "workflow", "transitions",
                        "details", "post", "put"}
    /\ SetTask(k, Throw(tasks[k], RequestError(tasks[k].log[Len(tasks[k].log)].req)))
    /\ UNCHANGED <<bulkPc, bulkVariant, bulkInput, bulkArgs, bulkResult,
                   issueStatus, stateMachineCache, heap>>

\* Promise.allSettled resolves and the summary is returned
BulkSettle ==
    /\ bulkPc = "running"
    /\ ReadyToSettle(tasks)
    /\ bulkPc' = "done"
    /\ bulkResult' = Summary(bulkVariant, tasks)
    /\ UNCHANGED <<bulkVariant, bulkInput, bulkArgs, tasks, issueStatus,
                   stateMachineCache, heap>>

(***************************************************************************)
(* Batches over matched issues: Jira.updateByStatus, Jira.updateByPR and   *)
(* the update loop of handlePullRequestEvent                               *)
(***************************************************************************)
BatchVariants == {"updateByStatus", "updateByPR", "handlePullRequestEvent"}
Sequential(variant) == variant \in {"updateByPR", "handlePullRequestEvent"}

\* lists of distinct issues: a search result, or the keys extracted from a PR
MatchLists ==
    {m \in SeqsUpTo(IssueKeys, MaxKeys) :
        \A i, j \in 1..Len(m) : i # j => m[i] # m[j]}

\* POST /search with jql status = "...": the issues in that status, in key order
RECURSIVE StatusMatches(_, _)
StatusMatches(status, keys) ==
    IF keys = {} THEN <<>>
    ELSE LET k == CHOOSE x \in keys : \A y \in keys : x = "DEX-36" \/ y # "DEX-36"
         IN (IF issueStatus[k] = status THEN <<k>> ELSE <<>>)
               \o StatusMatches(status, keys \ {k})

\* the call made for one issue of the batch
StartBatchTask(variant, issueKey, fields) ==
    IF ThroughUpdate(variant) THEN StartUpdate(NewTask(issueKey), fields)
    ELSE StartTransition(NewTask(issueKey), fields)

\* successful / failed as the batch counts them
BatchSummary(ts) ==
    LET failed == SelectSeq(ts, LAMBDA t : t.pc = "rejected")
    IN [successful |-> Len(ts) - Len(failed),
        failed |-> Len(failed),
        errors |-> [i \in 1..Len(failed) |->
                      [issueKey |-> failed[i].raw,
                       error |-> failed[i].error.message]]]

\* updateByStatus or updateByPR is called: the search request is issued
BatchSearch(variant, status, newStatus, fields) ==
    /\ variant \in {"updateByStatus", "updateByPR"}
    /\ bulkVariant' = variant
    /\ bulkArgs' = [target |-> newStatus, exclude |-> DEFAULT_EXCLUDE_STATES,
                    fields |-> fields, customFields |-> FALSE, search |-> status]
    /\ bulkPc' = "search"
    /\ UNCHANGED <<bulkInput, tasks, bulkResult, issueStatus, stateMachineCache, heap>>

\* handlePullRequestEvent reaches its loop with the keys extracted from the PR
BatchPullRequest(issueKeys, targetStatus, fields, customFields) ==
    /\ bulkVariant' = "handlePullRequestEvent"
    /\ bulkArgs' = [target |-> targetStatus, exclude |-> DEFAULT_EXCLUDE_STATES,
                    fields |-> fields, customFields |-> customFields,
                    search |-> NULL]
    /\ bulkInput' = issueKeys
    /\ IF Len(issueKeys) = 0
       THEN /\ bulkPc' = "done"
            /\ tasks' = <<>>
       ELSE /\ bulkPc' = "running"
            /\ tasks' = <<StartBatchTask("handlePullRequestEvent", issueKeys[1], fields)>>
    /\ UNCHANGED <<bulkResult, issueStatus, stateMachineCache, heap>>

\* one of the three batch operations starts
BatchCall ==
    /\ bulkPc = "idle"
    /\ \/ \E variant \in BatchVariants, status \in StatusNames,
             newStatus \in TargetStatuses, fields \in TransitionFieldChoices :
               BatchSearch(variant, status, newStatus, fields)
       \/ \E issueKeys \in MatchLists, targetStatus \in TargetStatuses,
             fields \in TransitionFieldChoices, customFields \in BOOLEAN :
               BatchPullRequest(issueKeys, targetStatus, fields, customFields)

\* the search answers: updateByStatus maps every issue to a transitionIssue
\* call, updateByPR enters its loop with the first issue
SearchAnswered(issues) ==
    /\ bulkPc = "search"
    /\ bulkVariant = "updateByStatus" =>
          issues = StatusMatches(bulkArgs.search, IssueKeys)
    /\ bulkInput' = issues
    /\ IF bulkVariant = "updateByStatus"
       THEN /\ bulkPc' = "running"
            /\ tasks' = DispatchJira(issues, bulkArgs.fields)
       ELSE IF Len(issues) = 0
       THEN /\ bulkPc' = "done"
            /\ tasks' = <<>>
       ELSE /\ bulkPc' = "running"
            /\ tasks' = <<StartBatchTask(bulkVariant, issues[1], bulkArgs.fields)>>
    /\ UNCHANGED <<bulkVariant, bulkArgs, bulkResult, issueStatus,
                   stateMachineCache, heap>>

\* the search request throws: the batch operation rethrows
SearchFailed ==
    /\ bulkPc = "search"
    /\ bulkPc' = "thrown"
    /\ UNCHANGED <<bulkVariant, bulkInput, bulkArgs, tasks, bulkResult,
                   issueStatus, stateMachineCache, heap>>

\* the for loop goes on to the next issue: updateByPR after a call that
\* returned, handlePullRequestEvent also after one whose error it caught
BatchNextIssue ==
    /\ bulkPc = "running"
    /\ Sequential(bulkVariant)
    /\ Len(tasks) < Len(bulkInput)
    /\ Settled(tasks[Len(tasks)])
    /\ bulkVariant = "updateByPR" => tasks[Len(tasks)].pc = "fulfilled"
    /\ tasks' = Append(tasks, StartBatchTask(bulkVariant,
                                 bulkInput[Len(tasks) + 1], bulkArgs.fields))
    /\ UNCHANGED <<bulkPc, bulkVariant, bulkInput, bulkArgs, bulkResult,
                   issueStatus, stateMachineCache, heap>>

\* updateByPR: transitionIssue throws inside the loop and the error leaves it
BatchAbort ==
    /\ bulkPc = "running"
    /\ bulkVariant = "updateByPR"
    /\ tasks[Len(tasks)].pc = "rejected"
    /\ bulkPc' = "thrown"
    /\ UNCHANGED <<bulkVariant, bulkInput, bulkArgs, tasks, bulkResult,
                   issueStatus, stateMachineCache, heap>>

\* the loop, or Promise.allSettled, is over: the operation returns
BatchReturn ==
    /\ bulkPc = "running"
    /\ Len(tasks) = Len(bulkInput)
    /\ ReadyToSettle(tasks)
    /\ bulkVariant = "updateByPR" => Len(tasks) = 0 \/ tasks[Len(tasks)].pc = "fulfilled"
    /\ bulkPc' = "done"
    /\ bulkResult' = BatchSummary(tasks)
    /\ UNCHANGED <<bulkVariant, bulkInput, bulkArgs, tasks, issueStatus,
                   stateMachineCache, heap>>

(***************************************************************************)
(* fetchCommitsAndExtractIssues: the scan of the commit history            *)
(***************************************************************************)
\* consecutiveDoneThreshold: the default, and a shorter one
Thresholds == {2, 5}
\* commits.length of a page: none, a short last page, a full page
PageLengths == {0, 40, PER_PAGE}
\* what ISSUE_KEY_EXTRACT_PATTERN finds in the messages of a page, in order
CommitMatches == SeqsUpTo({"DEX-36", "DEX-37", "A-1"}, 2)

\* the loop over the matches: valid keys not yet in the batch nor in allIssueKeys
RECURSIVE ExtractBatch(_, _, _, _)
ExtractBatch(matches, i, batch, all) ==
    IF i > Len(matches) THEN batch
    ELSE IF /\ isValidIssueKey(matches[i])
            /\ ~\E j \in 1..Len(batch) : batch[j] = matches[i]
            /\ ~\E j \in 1..Len(all) : all[j] = matches[i]
    THEN ExtractBatch(matches, i + 1, Append(batch, matches[i]), all)
    ELSE ExtractBatch(matches, i + 1, batch, all)

NoCheck == [key |-> NULL, outcome |-> "none", before |-> 0, after |-> 0]
NoHistory == [recent |-> <<>>, seen |-> {}, lastPage |-> "none"]

\* the history after one more status check: the outcomes are kept as far back
\* as the threshold reaches
Checked(history, key, outcome, threshold) ==
    LET all == Append(history.recent, outcome)
    IN [history EXCEPT
          !.recent = IF Len(all) > threshold THEN Tail(all) ELSE all,
          !.seen = @ \cup {[key |-> key, outcome |-> outcome]}]

CommitsIdle ==
    /\ fcPc = "off"
    /\ fcArgs = [targetStatus |-> NULL, threshold |-> 0]
    /\ page = 1
    /\ consecutiveDoneCount = 0
    /\ totalCommitsChecked = 0
    /\ allIssueKeys = <<>>
    /\ batchIssueKeys = <<>>
    /\ batchIndex = 0
    /\ commitsLength = 0
    /\ fcResult = <<>>
    /\ fcLast = NoCheck
    /\ fcHistory = NoHistory

CommitsInit ==
    /\ fcPc = "idle"
    /\ fcArgs = [targetStatus |-> NULL, threshold |-> 0]
    /\ page = 1
    /\ consecutiveDoneCount = 0
    /\ totalCommitsChecked = 0
    /\ allIssueKeys = <<>>
    /\ batchIssueKeys = <<>>
    /\ batchIndex = 0
    /\ commitsLength = 0
    /\ fcResult = <<>>
    /\ fcLast = NoCheck
    /\ fcHistory = NoHistory

\* return allIssueKeys
ReturnKeys(keys) ==
    /\ fcPc' = "returned"
    /\ fcResult' = keys

\* a loop that ends on a short page only
LastPageWithoutLimit(total, length) == length < PER_PAGE
\* if (totalCommitsChecked >= 1000) break; if (commits.length < perPage) break
LastPage(total, length) == total >= COMMIT_SAFETY_LIMIT \/ length < PER_PAGE

\* a stop that waits for one more issue at the target status
ThresholdReachedLate(count, threshold) == count > threshold
\* if (consecutiveDoneCount >= consecutiveDoneThreshold)
ThresholdReached(count, threshold) == count >= threshold

\* the end of the loop body: next page, safety limit, short page, delay
EndOfPage(total, length, keys) ==
    /\ page' = page + 1
    /\ IF LastPage(total, length)
       THEN ReturnKeys(keys)
       ELSE /\ fcPc' = "delay"
            /\ UNCHANGED fcResult

\* after the status check of one key: the next key of the batch, or the end
\* of the loop body
NextKey(keys) ==
    IF batchIndex < Len(batchIssueKeys)
    THEN /\ batchIndex' = batchIndex + 1
         /\ UNCHANGED <<fcPc, page, fcResult>>
    ELSE /\ batchIndex' = 0
         /\ EndOfPage(totalCommitsChecked, commitsLength, keys)

\* fetchCommitsAndExtractIssues is called: the first page is asked for
FetchCommitsCall(targetStatus, threshold) ==
    /\ fcPc' = "page"
    /\ fcArgs' = [targetStatus |-> targetStatus, threshold |-> threshold]
    /\ UNCHANGED <<page, consecutiveDoneCount, totalCommitsChecked, allIssueKeys,
                   batchIssueKeys, batchIndex, commitsLength, fcResult, fcLast,
                   fcHistory>>

FetchCommitsStart ==
    /\ fcPc = "idle"
    /\ \E targetStatus \in TargetStatuses, threshold \in Thresholds :
          FetchCommitsCall(targetStatus, threshold)

\* a page of commits arrives: extract its keys and read the first one's status
PageFetched(length, matches) ==
    /\ fcPc = "page"
    /\ length = 0 => matches = <<>>
    /\ commitsLength' = length
    /\ IF length = 0
       THEN /\ ReturnKeys(allIssueKeys)
            /\ UNCHANGED <<page, totalCommitsChecked, batchIssueKeys, batchIndex>>
       ELSE LET batch == ExtractBatch(matches, 1, <<>>, allIssueKeys)
            IN /\ totalCommitsChecked' = totalCommitsChecked + length
               /\ batchIssueKeys' = batch
               /\ IF Len(batch) > 0
                  THEN /\ fcPc' = "status"
                       /\ batchIndex' = 1
                       /\ UNCHANGED <<page, fcResult>>
                  ELSE /\ batchIndex' = 0
                       /\ EndOfPage(totalCommitsChecked', length, allIssueKeys)
    /\ fcHistory' = [fcHistory EXCEPT !.lastPage = "listed"]
    /\ UNCHANGED <<fcArgs, consecutiveDoneCount, allIssueKeys, fcLast>>

\* the commit listing fails after its retries: the outer catch returns []
PageFailed ==
    /\ fcPc = "page"
    /\ ReturnKeys(<<>>)
    /\ fcHistory' = [fcHistory EXCEPT !.lastPage = "failed"]
    /\ UNCHANGED <<fcArgs, page, consecutiveDoneCount, totalCommitsChecked,
                   allIssueKeys, batchIssueKeys, batchIndex, commitsLength, fcLast>>

\* the status of the key at hand arrives
StatusFetched(currentStatus) ==
    /\ fcPc = "status"
    /\ LET issueKey == batchIssueKeys[batchIndex]
       IN IF currentStatus = fcArgs.targetStatus
          THEN /\ consecutiveDoneCount' = consecutiveDoneCount + 1
               /\ fcLast' = [key |-> issueKey, outcome |-> "done",
                             before |-> consecutiveDoneCount,
                             after |-> consecutiveDoneCount + 1]
               /\ UNCHANGED allIssueKeys
               /\ fcHistory' = Checked(fcHistory, issueKey, "done", fcArgs.threshold)
               /\ IF ThresholdReached(consecutiveDoneCount + 1, fcArgs.threshold)
                  THEN /\ ReturnKeys(allIssueKeys)
                       /\ UNCHANGED <<page, batchIndex>>
                  ELSE NextKey(allIssueKeys)
          ELSE /\ consecutiveDoneCount' = 0
               /\ allIssueKeys' = Append(allIssueKeys, issueKey)
               /\ fcLast' = [key |-> issueKey, outcome |-> "not done",
                             before |-> consecutiveDoneCount, after |-> 0]
               /\ fcHistory' = Checked(fcHistory, issueKey, "not done",
                                       fcArgs.threshold)
               /\ NextKey(allIssueKeys')
    /\ UNCHANGED <<fcArgs, totalCommitsChecked, batchIssueKeys, commitsLength>>

\* the status request of the key at hand throws: the key is skipped
StatusFailed ==
    /\ fcPc = "status"
    /\ consecutiveDoneCount' = 0
    /\ fcLast' = [key |-> batchIssueKeys[batchIndex], outcome |-> "failed",
                  before |-> consecutiveDoneCount, after |-> 0]
    /\ fcHistory' = Checked(fcHistory, batchIssueKeys[batchIndex], "failed",
                            fcArgs.threshold)
    /\ NextKey(allIssueKeys)
    /\ UNCHANGED <<fcArgs, totalCommitsChecked, allIssueKeys, batchIssueKeys,
                   commitsLength>>

\* the delay between two pages has elapsed: the next page is asked for
DelayElapsed ==
    /\ fcPc = "delay"
    /\ fcPc' = "page"
    /\ UNCHANGED <<fcArgs, page, consecutiveDoneCount, totalCommitsChecked,
                   allIssueKeys, batchIssueKeys, batchIndex, commitsLength,
                   fcResult, fcLast, fcHistory>>

\* transitionIssue(issueKey, targetStatus, excludeStates, fields) called on
\* its own, and called again with the same arguments once the first call
\* has settled
RepeatFirstCall(issueKey, targetStatus, excludeStates, fields) ==
    /\ bulkPc = "idle"
    /\ bulkPc' = "first"
    /\ bulkVariant' = "jira"
    /\ bulkInput' = <<issueKey>>
    /\ bulkArgs' = [target |-> targetStatus, exclude |-> excludeStates,
                    fields |-> fields, customFields |-> FALSE]
    /\ tasks' = <<StartTransition(NewTask(issueKey), fields)>>
    /\ UNCHANGED <<bulkResult, issueStatus, stateMachineCache, heap>>

RepeatSecondCall ==
    /\ bulkPc = "first"
    /\ Settled(tasks[1])
    /\ bulkPc' = "second"
    /\ tasks' = Append(tasks, StartTransition(NewTask(bulkInput[1]), bulkArgs.fields))
    /\ UNCHANGED <<bulkVariant, bulkInput, bulkArgs, bulkResult, issueStatus,
                   stateMachineCache, heap>>

(***************************************************************************)
(* Jira._getDefaultFieldValue and the getFieldOptions calls it makes       *)
(***************************************************************************)
MaxOptions == 2

\* the fields a transition screen can require: id and display name
ScreenFields ==
    { [id |-> "resolution", name |-> "Resolution"],
      [id |-> "resolution", name |-> "Resolucion"],
      [id |-> "customfield_10100", name |-> "Resolution"],
      [id |-> "priority", name |-> "Priority"],
      [id |-> "customfield_10200", name |-> "Priority"],
      [id |-> "summary", name |-> "Summary"],
      [id |-> "assignee", name |-> "Assignee"] }

\* the options the backend can list under /resolution and /priority
BackendOptions(fieldName) ==
    IF fieldName = "resolution"
    THEN { [id |-> "10000", name |-> "Done"], [id |-> "10001", name |-> "Fixed"],
           [id |-> "10002", name |-> "Won't Do"], [id |-> "10005", name |-> "Done"] }
    ELSE { [id |-> "1", name |-> "Highest"], [id |-> "3", name |-> "Medium"],
           [id |-> "4", name |-> "Low"], [id |-> "10300", name |-> "Medium"] }
OptionLists(fieldName) ==
    {l \in SeqsUpTo(BackendOptions(fieldName), MaxOptions) :
        \A i, j \in 1..Len(l) : i # j => l[i].id # l[j].id}

NoDefault == [kind |-> "null", id |-> NULL]
DefaultValue(option) == [kind |-> "value", id |-> option.id]
NoAnswer == [state |-> "not fetched", options |-> <<>>]
NotFetched == [resolution |-> NoAnswer, priority |-> NoAnswer]

\* a choice that takes the first listed option whatever its name
PreferredOrFirstIgnoringName(options, preferred) ==
    IF Len(options) > 0 THEN DefaultValue(options[1]) ELSE NoDefault
\* options.find(o => o.name === preferred), else options[0], else undefined
PreferredOrFirst(options, preferred) ==
    LET hits == {i \in 1..Len(options) : options[i].name = preferred}
    IN IF hits # {} THEN DefaultValue(options[CHOOSE i \in hits : \A j \in hits : i <= j])
       ELSE IF Len(options) > 0 THEN DefaultValue(options[1])
       ELSE NoDefault

\* fieldId === 'resolution' || fieldInfo.name === 'Resolution'
IsResolutionField(fieldId, fieldInfo) ==
    fieldId = "resolution" \/ fieldInfo.name = "Resolution"
\* fieldId === 'priority' || fieldInfo.name === 'Priority'
IsPriorityField(fieldId, fieldInfo) ==
    fieldId = "priority" \/ fieldInfo.name = "Priority"

DefaultIdle ==
    /\ dfPc = "off"
    /\ dfArgs = NULL
    /\ dfFetched = NotFetched
    /\ dfResult = NoDefault

DefaultInit ==
    /\ dfPc = "idle"
    /\ dfArgs = NULL
    /\ dfFetched = NotFetched
    /\ dfResult = NoDefault

\* where the function goes once the resolution branch gave no value
AfterResolution(fieldId, fieldInfo) ==
    IF IsPriorityField(fieldId, fieldInfo) THEN "priority" ELSE "returned"

\* _getDefaultFieldValue(issueKey, fieldId, fieldInfo) up to its first await
DefaultCall(issueKey, fieldId, fieldInfo) ==
    /\ dfPc \in {"idle", "returned"}
    /\ dfArgs' = [issueKey |-> issueKey, fieldId |-> fieldId, fieldInfo |-> fieldInfo]
    /\ dfFetched' = NotFetched
    /\ dfResult' = NoDefault
    /\ dfPc' = IF IsResolutionField(fieldId, fieldInfo) THEN "resolution"
               ELSE AfterResolution(fieldId, fieldInfo)

\* getFieldOptions('resolution') returned: the listed options, [] after a failure
ResolutionsReturned(resolutions, fetched) ==
    /\ dfPc = "resolution"
    /\ dfFetched' = [dfFetched EXCEPT !.resolution = [state |-> fetched, options |-> resolutions]]
    /\ LET resolution == PreferredOrFirst(resolutions, "Done")
       IN IF resolution # NoDefault
          THEN dfPc' = "returned" /\ dfResult' = resolution
          ELSE /\ dfPc' = AfterResolution(dfArgs.fieldId, dfArgs.fieldInfo)
               /\ dfResult' = NoDefault
    /\ UNCHANGED dfArgs

\* getFieldOptions('priority') returned: the listed options, [] after a failure
PrioritiesReturned(priorities, fetched) ==
    /\ dfPc = "priority"
    /\ dfFetched' = [dfFetched EXCEPT !.priority = [state |-> fetched, options |-> priorities]]
    /\ dfPc' = "returned"
    /\ dfResult' = PreferredOrFirst(priorities, "Medium")
    /\ UNCHANGED dfArgs

(***************************************************************************)
(* handlePushEvent                                                         *)
(***************************************************************************)
Branches == {"master", "main", "staging", "dev", "feature/x"}
PrNumbers == {0, 57}

\* the per-branch table: target status and the names of the custom fields
STATUS_MAP ==
    [b \in {"master", "main", "staging", "dev"} |->
        CASE b \in {"master", "main"} ->
               [status |-> "Done",
                customFields |-> {"PRODUCTION_TIMESTAMP", "RELEASE_ENVIRONMENT"}]
          [] b = "staging" ->
               [status |-> "Deployed to Staging",
                customFields |-> {"STAGING_TIMESTAMP", "RELEASE_ENVIRONMENT"}]
          [] OTHER ->
               [status |-> "Merged", customFields |-> {}]]

\* a test that takes master for the only production branch
IsProductionMasterOnly(branch) == branch = "master"
\* ACTION_CONSTANTS.BRANCHES.PRODUCTION.includes(branch)
IsProduction(branch) == branch \in {"master", "main"}
\* branch === ACTION_CONSTANTS.BRANCHES.STAGING
IsStaging(branch) == branch = "staging"

NothingFound == [history |-> <<>>, search |-> <<>>]
PushRequest(req, key, fields) == [req |-> req, key |-> key, fields |-> fields]
SearchRequest == PushRequest("POST search", NULL, {})

\* issues.map(key => jiraUtil.updateCustomFields(key, preparedCustomFields)):
\* every call issues its PUT before any of them is awaited
CustomFieldWrites(keys, phase) ==
    [i \in 1..Len(keys) |-> [key |-> keys[i], phase |-> phase, pc |-> "put"]]
CustomFieldPuts(keys, fields) ==
    [i \in 1..Len(keys) |-> PushRequest("PUT issue", keys[i], fields)]

\* what updateIssueWithCustomFields issues for one issue: a transition POST
\* when the issue has to move, then the PUT when there are custom fields
UpdateOutcomes == {"moved", "at target", "failed"}
UpdateRequests(key, outcome, fields) ==
    (IF outcome = "moved" THEN <<PushRequest("POST transition", key, {})>> ELSE <<>>)
    \o (IF outcome # "failed" /\ fields # {}
        THEN <<PushRequest("PUT issue", key, fields)>> ELSE <<>>)
RECURSIVE UpdateAll(_, _, _, _)
UpdateAll(keys, outcomes, fields, i) ==
    IF i > Len(keys) THEN <<>>
    ELSE UpdateRequests(keys[i], outcomes[i], fields)
         \o UpdateAll(keys, outcomes, fields, i + 1)

PushIdle ==
    /\ pushPc = "off"
    /\ pushBranch = NULL
    /\ pushPr = 0
    /\ pushFound = NothingFound
    /\ pushWrites = <<>>
    /\ pushRequests = <<>>

PushInit ==
    /\ pushPc = "idle"
    /\ pushBranch = NULL
    /\ pushPr = 0
    /\ pushFound = NothingFound
    /\ pushWrites = <<>>
    /\ pushRequests = <<>>

\* handlePushEvent(branch, ...) up to the request for the latest commit
PushCall(branch) ==
    /\ pushPc = "idle"
    /\ pushBranch' = branch
    /\ pushPc' = IF branch \in DOMAIN STATUS_MAP THEN "commit" ELSE "done"
    /\ UNCHANGED <<pushPr, pushFound, pushWrites, pushRequests>>

\* the part that handles a PR merged straight into the branch
\* production: the search request; other branches: updateIssuesByPR, which
\* starts with its own search request
PrPart(prNumber, awaiting) ==
    IF prNumber # 0
    THEN /\ pushPc' = awaiting
         /\ pushRequests' = Append(pushRequests, SearchRequest)
    ELSE /\ pushPc' = "done"
         /\ UNCHANGED pushRequests

\* the latest commit arrives: extractPrNumber, then the branch's handling
CommitReturned(prNumber) ==
    /\ pushPc = "commit"
    /\ pushPr' = prNumber
    /\ IF IsProduction(pushBranch) \/ IsStaging(pushBranch)
       THEN pushPc' = "history" /\ UNCHANGED pushRequests
       ELSE PrPart(prNumber, "byPr")
    /\ UNCHANGED <<pushBranch, pushFound, pushWrites>>

\* the request for the latest commit fails: handlePushEvent rethrows
CommitFailed ==
    /\ pushPc = "commit"
    /\ pushPc' = "thrown"
    /\ UNCHANGED <<pushBranch, pushPr, pushFound, pushWrites, pushRequests>>

\* fetchCommitsAndExtractIssues returns ([] after a failure)
HistoryReturned(keys) ==
    /\ pushPc = "history"
    /\ pushFound' = [pushFound EXCEPT !.history = keys]
    /\ IF keys = <<>>
       THEN /\ PrPart(pushPr, IF IsProduction(pushBranch) THEN "search" ELSE "byPr")
            /\ UNCHANGED pushWrites
       ELSE IF IsProduction(pushBranch)
       THEN /\ pushPc' = "puts"
            /\ pushWrites' = pushWrites \o CustomFieldWrites(keys, "history")
            /\ pushRequests' = pushRequests \o
                  CustomFieldPuts(keys, STATUS_MAP[pushBranch].customFields)
       ELSE /\ pushPc' = "update"
            /\ UNCHANGED <<pushWrites, pushRequests>>
    /\ UNCHANGED <<pushBranch, pushPr>>

\* one updateCustomFields call settles
WriteSettled(k, outcome) ==
    /\ pushPc \in {"puts", "prPuts"}
    /\ pushWrites[k].pc = "put"
    /\ pushWrites' = [pushWrites EXCEPT ![k].pc = outcome]
    /\ UNCHANGED <<pushPc, pushBranch, pushPr, pushFound, pushRequests>>

\* Promise.allSettled resolves: on to the PR part, or the end
WritesSettled ==
    /\ pushPc \in {"puts", "prPuts"}
    /\ \A k \in 1..Len(pushWrites) : pushWrites[k].pc # "put"
    /\ IF pushPc = "puts" THEN PrPart(pushPr, "search")
       ELSE pushPc' = "done" /\ UNCHANGED pushRequests
    /\ UNCHANGED <<pushBranch, pushPr, pushFound, pushWrites>>

\* production: the PR search answers, and the issues found get their PUT
PushSearchReturned(issues) ==
    /\ pushPc = "search"
    /\ pushFound' = [pushFound EXCEPT !.search = issues]
    /\ IF issues = <<>>
       THEN pushPc' = "done" /\ UNCHANGED <<pushWrites, pushRequests>>
       ELSE /\ pushPc' = "prPuts"
            /\ pushWrites' = pushWrites \o CustomFieldWrites(issues, "search")
            /\ pushRequests' = pushRequests \o
                  CustomFieldPuts(issues, STATUS_MAP[pushBranch].customFields)
    /\ UNCHANGED <<pushBranch, pushPr>>

\* updateIssuesByPR: its search answers, and it updates the issues found
ByPrSearchReturned(issues) ==
    /\ pushPc = "byPr"
    /\ pushFound' = [pushFound EXCEPT !.search = issues]
    /\ pushPc' = IF issues = <<>> THEN "done" ELSE "update"
    /\ UNCHANGED <<pushBranch, pushPr, pushWrites, pushRequests>>

\* a search request fails: the error is caught and logged
PushSearchFailed ==
    /\ pushPc \in {"search", "byPr"}
    /\ pushPc' = "done"
    /\ UNCHANGED <<pushBranch, pushPr, pushFound, pushWrites, pushRequests>>

\* updateIssuesFromCommitHistory settles: one update per issue, each with
\* its own outcome
UpdateSettled(outcomes) ==
    /\ pushPc = "update"
    /\ LET keys == IF pushFound.history # <<>> THEN pushFound.history
                   ELSE pushFound.search
       IN /\ DOMAIN outcomes = 1..Len(keys)
          /\ pushRequests' = pushRequests \o
                UpdateAll(keys, outcomes, STATUS_MAP[pushBranch].customFields, 1)
    /\ pushPc' = "done"
    /\ UNCHANGED <<pushBranch, pushPr, pushFound, pushWrites>>

(***************************************************************************)
(* Specifications                                                          *)
(***************************************************************************)
InitRequest == ReqInit /\ PathIdle /\ CacheIdle /\ BulkIdle /\ CommitsIdle /\ DefaultIdle /\ PushIdle
NextRequest ==
    \/ \E ep \in Endpoints : RequestCall(ep)
          /\ UNCHANGED <<pathVars, cacheVars, bulkVars, commitVars, defaultVars, pushVars>>
    \/ \E r \in FetchOutcomes : RequestRateLimited(r)
          /\ UNCHANGED <<pathVars, cacheVars, bulkVars, commitVars, defaultVars, pushVars>>
    \/ \E r \in FetchOutcomes : RequestServerError(r)
          /\ UNCHANGED <<pathVars, cacheVars, bulkVars, commitVars, defaultVars, pushVars>>
    \/ \E r \in FetchOutcomes : RequestApiError(r)
          /\ UNCHANGED <<pathVars, cacheVars, bulkVars, commitVars, defaultVars, pushVars>>
    \/ \E r \in FetchOutcomes : RequestOk(r)
          /\ UNCHANGED <<pathVars, cacheVars, bulkVars, commitVars, defaultVars, pushVars>>
    \/ \E r \in FetchOutcomes : RequestNetworkRetry(r)
          /\ UNCHANGED <<pathVars, cacheVars, bulkVars, commitVars, defaultVars, pushVars>>
    \/ \E r \in FetchOutcomes : RequestNetworkError(r)
          /\ UNCHANGED <<pathVars, cacheVars, bulkVars, commitVars, defaultVars, pushVars>>
SpecRequest == InitRequest /\ [][NextRequest]_vars

\* the fetch of the attempt at hand settles: with a response or a rejection
FetchSettles ==
    /\ \E r \in FetchOutcomes :
          \/ RequestRateLimited(r)
          \/ RequestServerError(r)
          \/ RequestApiError(r)
          \/ RequestOk(r)
          \/ RequestNetworkRetry(r)
          \/ RequestNetworkError(r)
    /\ UNCHANGED <<pathVars, cacheVars, bulkVars, commitVars, defaultVars, pushVars>>
\* Jira.request when every fetch it awaits settles
SpecRequestLive == InitRequest /\ [][NextRequest]_vars /\ WF_vars(FetchSettles)

InitPath == PathInit /\ ReqIdle /\ CacheIdle /\ BulkIdle /\ CommitsIdle /\ DefaultIdle /\ PushIdle
NextPath ==
    \/ \E from \in SUBSET StatusIds, to \in StatusIds : BackendAddTransition(from, to)
          /\ UNCHANGED <<reqVars, cacheVars, bulkVars, commitVars, defaultVars, pushVars>>
    \/ \E from \in StatusNames, to \in StatusNames, exclude \in SUBSET StatusNames : FindShortest(from, to, exclude)
          /\ UNCHANGED <<reqVars, cacheVars, bulkVars, commitVars, defaultVars, pushVars>>
    \/ \E from \in StatusNames, to \in StatusNames : FindAll(from, to)
          /\ UNCHANGED <<reqVars, cacheVars, bulkVars, commitVars, defaultVars, pushVars>>
SpecPath == InitPath /\ [][NextPath]_vars

InitDepth == DepthInit /\ ReqIdle /\ CacheIdle /\ BulkIdle /\ CommitsIdle /\ DefaultIdle /\ PushIdle
NextDepth ==
    \/ \E from \in WorkflowStatusNames(wfDef), to \in WorkflowStatusNames(wfDef), exclude \in {{}, {"S2"}} : FindShortest(from, to, exclude)
          /\ UNCHANGED <<reqVars, cacheVars, bulkVars, commitVars, defaultVars, pushVars>>
    \/ \E from \in WorkflowStatusNames(wfDef), to \in WorkflowStatusNames(wfDef) : FindAll(from, to)
          /\ UNCHANGED <<reqVars, cacheVars, bulkVars, commitVars, defaultVars, pushVars>>
SpecDepth == InitDepth /\ [][NextDepth]_vars

InitCache == CacheInit /\ ReqIdle /\ PathIdle /\ BulkIdle /\ CommitsIdle /\ DefaultIdle /\ PushIdle
NextCache ==
    \/ \E c \in Callers : GetStateMachineInvalid(c)
          /\ UNCHANGED <<reqVars, pathVars, bulkVars, commitVars, defaultVars, pushVars>>
    \/ \E c \in Callers, n \in WorkflowNames : GetStateMachineCached(c, n)
          /\ UNCHANGED <<reqVars, pathVars, bulkVars, commitVars, defaultVars, pushVars>>
    \/ \E c \in Callers, n \in WorkflowNames : GetStateMachineFetch(c, n)
          /\ UNCHANGED <<reqVars, pathVars, bulkVars, commitVars, defaultVars, pushVars>>
    \/ \E c \in Callers : GetStateMachineBuilt(c)
          /\ UNCHANGED <<reqVars, pathVars, bulkVars, commitVars, defaultVars, pushVars>>
    \/ \E c \in Callers : GetStateMachineNotFound(c)
          /\ UNCHANGED <<reqVars, pathVars, bulkVars, commitVars, defaultVars, pushVars>>
    \/ \E c \in Callers : GetStateMachineRequestFailed(c)
          /\ UNCHANGED <<reqVars, pathVars, bulkVars, commitVars, defaultVars, pushVars>>
SpecCache == InitCache /\ [][NextCache]_vars

InitBulk == BulkInit /\ ReqIdle /\ PathIdle /\ CacheIdle /\ CommitsIdle /\ DefaultIdle /\ PushIdle
NextBulk ==
    \/ BulkCall
          /\ UNCHANGED <<reqVars, pathVars, callers, firstReturned, fetchInFlightThen,
                       commitVars, defaultVars, pushVars>>
    \/ \E k \in 1..Len(tasks), options \in ResolutionOptionLists : PrepareFieldsDone(k, options)
          /\ UNCHANGED <<reqVars, pathVars, callers, firstReturned, fetchInFlightThen,
                       commitVars, defaultVars, pushVars>>
    \/ \E k \in 1..Len(tasks), options \in ResolutionOptionLists : OptionsFetched(k, options)
          /\ UNCHANGED <<reqVars, pathVars, callers, firstReturned, fetchInFlightThen,
                       commitVars, defaultVars, pushVars>>
    \/ \E k \in 1..Len(tasks) : IssueFetched(k)
          /\ UNCHANGED <<reqVars, pathVars, callers, firstReturned, fetchInFlightThen,
                       commitVars, defaultVars, pushVars>>
    \/ \E k \in 1..Len(tasks) : ProjectFetched(k)
          /\ UNCHANGED <<reqVars, pathVars, callers, firstReturned, fetchInFlightThen,
                       commitVars, defaultVars, pushVars>>
    \/ \E k \in 1..Len(tasks) : SchemeFetched(k)
          /\ UNCHANGED <<reqVars, pathVars, callers, firstReturned, fetchInFlightThen,
                       commitVars, defaultVars, pushVars>>
    \/ \E k \in 1..Len(tasks) : SchemeMissing(k)
          /\ UNCHANGED <<reqVars, pathVars, callers, firstReturned, fetchInFlightThen,
                       commitVars, defaultVars, pushVars>>
    \/ \E k \in 1..Len(tasks) : WorkflowFetched(k)
          /\ UNCHANGED <<reqVars, pathVars, callers, firstReturned, fetchInFlightThen,
                       commitVars, defaultVars, pushVars>>
    \/ \E k \in 1..Len(tasks) : WorkflowNotFound(k)
          /\ UNCHANGED <<reqVars, pathVars, callers, firstReturned, fetchInFlightThen,
                       commitVars, defaultVars, pushVars>>
    \/ \E k \in 1..Len(tasks) : TransitionsFetched(k)
          /\ UNCHANGED <<reqVars, pathVars, callers, firstReturned, fetchInFlightThen,
                       commitVars, defaultVars, pushVars>>
    \/ \E k \in 1..Len(tasks) : DetailsFetched(k)
          /\ UNCHANGED <<reqVars, pathVars, callers, firstReturned, fetchInFlightThen,
                       commitVars, defaultVars, pushVars>>
    \/ \E k \in 1..Len(tasks) : PostCompleted(k)
          /\ UNCHANGED <<reqVars, pathVars, callers, firstReturned, fetchInFlightThen,
                       commitVars, defaultVars, pushVars>>
    \/ \E k \in 1..Len(tasks) : SleepElapsed(k)
          /\ UNCHANGED <<reqVars, pathVars, callers, firstReturned, fetchInFlightThen,
                       commitVars, defaultVars, pushVars>>
    \/ \E k \in 1..Len(tasks) : PutCompleted(k)
          /\ UNCHANGED <<reqVars, pathVars, callers, firstReturned, fetchInFlightThen,
                       commitVars, defaultVars, pushVars>>
    \/ \E k \in 1..Len(tasks) : RequestFailed(k)
          /\ UNCHANGED <<reqVars, pathVars, callers, firstReturned, fetchInFlightThen,
                       commitVars, defaultVars, pushVars>>
    \/ BulkSettle
          /\ UNCHANGED <<reqVars, pathVars, callers, firstReturned, fetchInFlightThen,
                       commitVars, defaultVars, pushVars>>
SpecBulk == InitBulk /\ [][NextBulk]_vars

InitRepeat == BulkInit /\ ReqIdle /\ PathIdle /\ CommitsIdle /\ CacheIdle /\ DefaultIdle /\ PushIdle
NextRepeat ==
    \/ \E issueKey \in {"DEX-36", "dex-36"}, targetStatus \in TargetStatuses, excludeStates \in ExcludeLists, fields \in TransitionFieldChoices : RepeatFirstCall(issueKey, targetStatus, excludeStates, fields)
          /\ UNCHANGED <<reqVars, pathVars, callers, firstReturned, fetchInFlightThen,
                       commitVars, defaultVars, pushVars>>
    \/ RepeatSecondCall
          /\ UNCHANGED <<reqVars, pathVars, callers, firstReturned, fetchInFlightThen,
                       commitVars, defaultVars, pushVars>>
    \/ \E k \in 1..Len(tasks), options \in ResolutionOptionLists : OptionsFetched(k, options)
          /\ UNCHANGED <<reqVars, pathVars, callers, firstReturned, fetchInFlightThen,
                       commitVars, defaultVars, pushVars>>
    \/ \E k \in 1..Len(tasks) : IssueFetched(k)
          /\ UNCHANGED <<reqVars, pathVars, callers, firstReturned, fetchInFlightThen,
                       commitVars, defaultVars, pushVars>>
    \/ \E k \in 1..Len(tasks) : ProjectFetched(k)
          /\ UNCHANGED <<reqVars, pathVars, callers, firstReturned, fetchInFlightThen,
                       commitVars, defaultVars, pushVars>>
    \/ \E k \in 1..Len(tasks) : SchemeFetched(k)
          /\ UNCHANGED <<reqVars, pathVars, callers, firstReturned, fetchInFlightThen,
                       commitVars, defaultVars, pushVars>>
    \/ \E k \in 1..Len(tasks) : SchemeMissing(k)
          /\ UNCHANGED <<reqVars, pathVars, callers, firstReturned, fetchInFlightThen,
                       commitVars, defaultVars, pushVars>>
    \/ \E k \in 1..Len(tasks) : WorkflowFetched(k)
          /\ UNCHANGED <<reqVars, pathVars, callers, firstReturned, fetchInFlightThen,
                       commitVars, defaultVars, pushVars>>
    \/ \E k \in 1..Len(tasks) : WorkflowNotFound(k)
          /\ UNCHANGED <<reqVars, pathVars, callers, firstReturned, fetchInFlightThen,
                       commitVars, defaultVars, pushVars>>
    \/ \E k \in 1..Len(tasks) : TransitionsFetched(k)
          /\ UNCHANGED <<reqVars, pathVars, callers, firstReturned, fetchInFlightThen,
                       commitVars, defaultVars, pushVars>>
    \/ \E k \in 1..Len(tasks) : DetailsFetched(k)
          /\ UNCHANGED <<reqVars, pathVars, callers, firstReturned, fetchInFlightThen,
                       commitVars, defaultVars, pushVars>>
    \/ \E k \in 1..Len(tasks) : PostCompleted(k)
          /\ UNCHANGED <<reqVars, pathVars, callers, firstReturned, fetchInFlightThen,
                       commitVars, defaultVars, pushVars>>
    \/ \E k \in 1..Len(tasks) : SleepElapsed(k)
          /\ UNCHANGED <<reqVars, pathVars, callers, firstReturned, fetchInFlightThen,
                       commitVars, defaultVars, pushVars>>
    \/ \E k \in 1..Len(tasks) : RequestFailed(k)
          /\ UNCHANGED <<reqVars, pathVars, callers, firstReturned, fetchInFlightThen,
                       commitVars, defaultVars, pushVars>>
SpecRepeat == InitRepeat /\ [][NextRepeat]_vars

InitBatch == BulkInit /\ ReqIdle /\ PathIdle /\ CacheIdle /\ CommitsIdle /\ DefaultIdle /\ PushIdle
NextBatch ==
    \/ BatchCall
          /\ UNCHANGED <<reqVars, pathVars, callers, firstReturned, fetchInFlightThen,
                       commitVars, defaultVars, pushVars>>
    \/ \E issues \in MatchLists : SearchAnswered(issues)
          /\ UNCHANGED <<reqVars, pathVars, callers, firstReturned, fetchInFlightThen,
                       commitVars, defaultVars, pushVars>>
    \/ SearchFailed
          /\ UNCHANGED <<reqVars, pathVars, callers, firstReturned, fetchInFlightThen,
                       commitVars, defaultVars, pushVars>>
    \/ BatchNextIssue
          /\ UNCHANGED <<reqVars, pathVars, callers, firstReturned, fetchInFlightThen,
                       commitVars, defaultVars, pushVars>>
    \/ BatchAbort
          /\ UNCHANGED <<reqVars, pathVars, callers, firstReturned, fetchInFlightThen,
                       commitVars, defaultVars, pushVars>>
    \/ BatchReturn
          /\ UNCHANGED <<reqVars, pathVars, callers, firstReturned, fetchInFlightThen,
                       commitVars, defaultVars, pushVars>>
    \/ \E k \in 1..Len(tasks), options \in ResolutionOptionLists : PrepareFieldsDone(k, options)
          /\ UNCHANGED <<reqVars, pathVars, callers, firstReturned, fetchInFlightThen,
                       commitVars, defaultVars, pushVars>>
    \/ \E k \in 1..Len(tasks), options \in ResolutionOptionLists : OptionsFetched(k, options)
          /\ UNCHANGED <<reqVars, pathVars, callers, firstReturned, fetchInFlightThen,
                       commitVars, defaultVars, pushVars>>
    \/ \E k \in 1..Len(tasks) : IssueFetched(k)
          /\ UNCHANGED <<reqVars, pathVars, callers, firstReturned, fetchInFlightThen,
                       commitVars, defaultVars, pushVars>>
    \/ \E k \in 1..Len(tasks) : ProjectFetched(k)
          /\ UNCHANGED <<reqVars, pathVars, callers, firstReturned, fetchInFlightThen,
                       commitVars, defaultVars, pushVars>>
    \/ \E k \in 1..Len(tasks) : SchemeFetched(k)
          /\ UNCHANGED <<reqVars, pathVars, callers, firstReturned, fetchInFlightThen,
                       commitVars, defaultVars, pushVars>>
    \/ \E k \in 1..Len(tasks) : SchemeMissing(k)
          /\ UNCHANGED <<reqVars, pathVars, callers, firstReturned, fetchInFlightThen,
                       commitVars, defaultVars, pushVars>>
    \/ \E k \in 1..Len(tasks) : WorkflowFetched(k)
          /\ UNCHANGED <<reqVars, pathVars, callers, firstReturned, fetchInFlightThen,
                       commitVars, defaultVars, pushVars>>
    \/ \E k \in 1..Len(tasks) : WorkflowNotFound(k)
          /\ UNCHANGED <<reqVars, pathVars, callers, firstReturned, fetchInFlightThen,
                       commitVars, defaultVars, pushVars>>
    \/ \E k \in 1..Len(tasks) : TransitionsFetched(k)
          /\ UNCHANGED <<reqVars, pathVars, callers, firstReturned, fetchInFlightThen,
                       commitVars, defaultVars, pushVars>>
    \/ \E k \in 1..Len(tasks) : DetailsFetched(k)
          /\ UNCHANGED <<reqVars, pathVars, callers, firstReturned, fetchInFlightThen,
                       commitVars, defaultVars, pushVars>>
    \/ \E k \in 1..Len(tasks) : PostCompleted(k)
          /\ UNCHANGED <<reqVars, pathVars, callers, firstReturned, fetchInFlightThen,
                       commitVars, defaultVars, pushVars>>
    \/ \E k \in 1..Len(tasks) : SleepElapsed(k)
          /\ UNCHANGED <<reqVars, pathVars, callers, firstReturned, fetchInFlightThen,
                       commitVars, defaultVars, pushVars>>
    \/ \E k \in 1..Len(tasks) : PutCompleted(k)
          /\ UNCHANGED <<reqVars, pathVars, callers, firstReturned, fetchInFlightThen,
                       commitVars, defaultVars, pushVars>>
    \/ \E k \in 1..Len(tasks) : RequestFailed(k)
          /\ UNCHANGED <<reqVars, pathVars, callers, firstReturned, fetchInFlightThen,
                       commitVars, defaultVars, pushVars>>
SpecBatch == InitBatch /\ [][NextBatch]_vars

InitDefault == DefaultInit /\ ReqIdle /\ PathIdle /\ CacheIdle /\ BulkIdle /\ CommitsIdle /\ PushIdle
NextDefault ==
    \/ \E issueKey \in IssueKeys, field \in ScreenFields : DefaultCall(issueKey, field.id, [name |-> field.name])
          /\ UNCHANGED <<reqVars, pathVars, cacheVars, bulkVars, commitVars, pushVars>>
    \/ \E resolutions \in OptionLists("resolution") : ResolutionsReturned(resolutions, "listed")
          /\ UNCHANGED <<reqVars, pathVars, cacheVars, bulkVars, commitVars, pushVars>>
    \/ ResolutionsReturned(<<>>, "failed")
          /\ UNCHANGED <<reqVars, pathVars, cacheVars, bulkVars, commitVars, pushVars>>
    \/ \E priorities \in OptionLists("priority") : PrioritiesReturned(priorities, "listed")
          /\ UNCHANGED <<reqVars, pathVars, cacheVars, bulkVars, commitVars, pushVars>>
    \/ PrioritiesReturned(<<>>, "failed")
          /\ UNCHANGED <<reqVars, pathVars, cacheVars, bulkVars, commitVars, pushVars>>
SpecDefault == InitDefault /\ [][NextDefault]_vars

InitPush == PushInit /\ ReqIdle /\ PathIdle /\ CacheIdle /\ BulkIdle /\ CommitsIdle /\ DefaultIdle
NextPush ==
    \/ \E branch \in Branches : PushCall(branch)
          /\ UNCHANGED <<reqVars, pathVars, cacheVars, bulkVars, commitVars, defaultVars>>
    \/ \E prNumber \in PrNumbers : CommitReturned(prNumber)
          /\ UNCHANGED <<reqVars, pathVars, cacheVars, bulkVars, commitVars, defaultVars>>
    \/ CommitFailed
          /\ UNCHANGED <<reqVars, pathVars, cacheVars, bulkVars, commitVars, defaultVars>>
    \/ \E keys \in MatchLists : HistoryReturned(keys)
          /\ UNCHANGED <<reqVars, pathVars, cacheVars, bulkVars, commitVars, defaultVars>>
    \/ \E k \in 1..Len(pushWrites), outcome \in {"fulfilled", "rejected"} : WriteSettled(k, outcome)
          /\ UNCHANGED <<reqVars, pathVars, cacheVars, bulkVars, commitVars, defaultVars>>
    \/ WritesSettled
          /\ UNCHANGED <<reqVars, pathVars, cacheVars, bulkVars, commitVars, defaultVars>>
    \/ \E issues \in MatchLists : PushSearchReturned(issues)
          /\ UNCHANGED <<reqVars, pathVars, cacheVars, bulkVars, commitVars, defaultVars>>
    \/ \E issues \in MatchLists : ByPrSearchReturned(issues)
          /\ UNCHANGED <<reqVars, pathVars, cacheVars, bulkVars, commitVars, defaultVars>>
    \/ PushSearchFailed
          /\ UNCHANGED <<reqVars, pathVars, cacheVars, bulkVars, commitVars, defaultVars>>
    \/ \E outcomes \in SeqsUpTo(UpdateOutcomes, MaxKeys) : UpdateSettled(outcomes)
          /\ UNCHANGED <<reqVars, pathVars, cacheVars, bulkVars, commitVars, defaultVars>>
SpecPush == InitPush /\ [][NextPush]_vars

InitCommits == CommitsInit /\ ReqIdle /\ PathIdle /\ CacheIdle /\ BulkIdle /\ DefaultIdle /\ PushIdle
NextCommits ==
    \/ FetchCommitsStart
          /\ UNCHANGED <<reqVars, pathVars, cacheVars, bulkVars, defaultVars, pushVars>>
    \/ \E length \in PageLengths, matches \in CommitMatches : PageFetched(length, matches)
          /\ UNCHANGED <<reqVars, pathVars, cacheVars, bulkVars, defaultVars, pushVars>>
    \/ PageFailed
          /\ UNCHANGED <<reqVars, pathVars, cacheVars, bulkVars, defaultVars, pushVars>>
    \/ \E currentStatus \in StatusNames : StatusFetched(currentStatus)
          /\ UNCHANGED <<reqVars, pathVars, cacheVars, bulkVars, defaultVars, pushVars>>
    \/ StatusFailed
          /\ UNCHANGED <<reqVars, pathVars, cacheVars, bulkVars, defaultVars, pushVars>>
    \/ DelayElapsed
          /\ UNCHANGED <<reqVars, pathVars, cacheVars, bulkVars, defaultVars, pushVars>>
SpecCommits == InitCommits /\ [][NextCommits]_vars

\* the requests and the timer the scan awaits settle
ListingSettles ==
    /\ \/ \E length \in PageLengths, matches \in CommitMatches : PageFetched(length, matches)
       \/ PageFailed
    /\ UNCHANGED <<reqVars, pathVars, cacheVars, bulkVars, defaultVars, pushVars>>
StatusSettles ==
    /\ \/ \E currentStatus \in StatusNames : StatusFetched(currentStatus)
       \/ StatusFailed
    /\ UNCHANGED <<reqVars, pathVars, cacheVars, bulkVars, defaultVars, pushVars>>
TimerFires == DelayElapsed /\ UNCHANGED <<reqVars, pathVars, cacheVars, bulkVars, defaultVars, pushVars>>
\* fetchCommitsAndExtractIssues when everything it awaits settles
SpecCommitsLive ==
    /\ InitCommits
    /\ [][NextCommits]_vars
    /\ WF_vars(ListingSettles)
    /\ WF_vars(StatusSettles)
    /\ WF_vars(TimerFires)

(***************************************************************************)
(* Claims about Jira.request                                               *)
(***************************************************************************)
AllFetches(P(_)) == \A i \in 1..Len(fetches) : P(fetches[i])
Met5xx(r) == r.kind = "response" /\ r.status >= 500
Met429(r) == r.kind = "response" /\ r.status = 429
MetNetworkFailure(r) == r.kind = "network"
\* non-2xx, not 429, below 500
MetClientError(r) ==
    r.kind = "response" /\ ~IsOk(r) /\ r.status # 429 /\ r.status < 500

\* C1: one request() call issues at most 3 fetches, and against a backend
\* that fails every attempt the same way (always 5xx, always 429, or always
\* at network level) exactly 3 fetches are issued before the JiraApiError.
C1_AtMostThreeAttempts ==
    /\ Len(fetches) <= 3
    /\ (/\ reqPc = "thrown"
        /\ (AllFetches(Met5xx) \/ AllFetches(Met429) \/ AllFetches(MetNetworkFailure)))
       => Len(fetches) = 3

\* C2: a response that is non-2xx, not 429 and below 500 ends the call at
\* once: it is the only fetch when it answers the first attempt, nothing is
\* slept or retried after it, and the JiraApiError thrown carries its status
\* code, the endpoint and its body.
C2_ClientErrorFailsImmediately ==
    \A i \in 1..Len(fetches) :
        MetClientError(fetches[i]) =>
            /\ i = Len(fetches)
            /\ Len(sleeps) = i - 1
            /\ reqPc = "thrown"
            /\ reqResult = JiraApiError(fetches[i].status, reqEndpoint, fetches[i].body)
            /\ (MetClientError(fetches[1]) => Len(fetches) = 1 /\ sleeps = <<>>)

C2_Witness ==
    /\ reqPc = "thrown"
    /\ Len(fetches) = 1
    /\ fetches[1].status = 404
    /\ reqResult.statusCode = 404
    /\ reqResult.endpoint = "/test"

\* C3: a 429 with Retry-After = s on attempt 1 followed by a 2xx on attempt 2
\* gives exactly 2 fetches with one sleep of s seconds between them, and the
\* caller receives the second response.
C3_RateLimitThenSuccess ==
    (/\ Len(fetches) >= 2
     /\ Met429(fetches[1])
     /\ fetches[1].retryAfter # NULL
     /\ IsOk(fetches[2]))
    => /\ Len(fetches) = 2
       /\ sleeps = <<ToNumber(fetches[1].retryAfter) * 1000>>
       /\ reqPc = "returned"
       /\ reqResult = fetches[2]

C3_Witness ==
    /\ reqPc = "returned"
    /\ Len(fetches) = 2
    /\ fetches[1].status = 429
    /\ fetches[1].retryAfter = "1"
    /\ fetches[2].status = 200
    /\ sleeps = <<1000>>


\* the fetches of the call at hand that a retry followed
RetriedFetches == SubSeq(fetches, 1, Len(sleeps))
IsRetryable(r) ==
    \/ r.kind = "network"
    \/ r.status = TOO_MANY_REQUESTS
    \/ r.status >= INTERNAL_SERVER_ERROR
\* one counter for the three classes of failure: it counts every retry
RetriesBounded ==
    /\ Len(sleeps) = retryCount
    /\ retryCount <= MAX_ATTEMPTS
    /\ Len(fetches) <= retryCount + 1
    /\ \A i \in 1..Len(RetriedFetches) : IsRetryable(RetriedFetches[i])
\* how the call ends: the first OK response, or a JiraApiError
RequestOutcome ==
    /\ reqPc = "returned" =>
          /\ reqResult = fetches[Len(fetches)]
          /\ reqResult.kind = "response" /\ IsOk(reqResult)
          /\ \A i \in 1..(Len(fetches) - 1) :
                ~(fetches[i].kind = "response" /\ IsOk(fetches[i]))
    /\ reqPc = "thrown" =>
          /\ reqResult.name = "JiraApiError"
          /\ reqResult.endpoint = reqEndpoint
          /\ \A i \in 1..Len(fetches) :
                ~(fetches[i].kind = "response" /\ IsOk(fetches[i]))
          /\ IF fetches[Len(fetches)].kind = "network"
             THEN reqResult.statusCode = 0 /\ retryCount = MAX_ATTEMPTS
             ELSE reqResult.statusCode = fetches[Len(fetches)].status

\* C34: every call of Jira.request ends, after at most MAX_ATTEMPTS retries
\* in total over 429 responses, 5xx responses and network failures in any
\* mix; it ends by returning the first OK response or by throwing a
\* JiraApiError, whose status code is 0 when the last fetch failed at
\* network level
C34_RequestEndsWithinRetryCap ==
    /\ [](RetriesBounded /\ RequestOutcome)
    /\ (reqPc = "attempt") ~> (reqPc \in {"returned", "thrown"})

\* a call that met a 429, then a 5xx, then two network failures, and threw
\* the JiraApiError with status code 0 after its third retry
C34_Witness ==
    /\ reqPc = "thrown"
    /\ Len(fetches) = MAX_ATTEMPTS + 1
    /\ fetches[1].status = TOO_MANY_REQUESTS
    /\ fetches[2].status >= INTERNAL_SERVER_ERROR
    /\ fetches[3].kind = "network"
    /\ fetches[4].kind = "network"
    /\ reqResult.statusCode = 0
    /\ Len(sleeps) = MAX_ATTEMPTS

\* a call that returned the OK response of its fourth fetch, after one retry
\* of each class
C34_WitnessReturned ==
    /\ reqPc = "returned"
    /\ Len(fetches) = MAX_ATTEMPTS + 1
    /\ {fetches[i].kind : i \in 1..3} = {"response", "network"}
    /\ \E i \in 1..3 : fetches[i].status = TOO_MANY_REQUESTS
    /\ \E i \in 1..3 : fetches[i].status >= INTERNAL_SERVER_ERROR

\* the delays of the exponential backoff, in milliseconds, by retry number
ExpectedBackoffMs == <<1000, 2000, 4000>>
\* the seconds a Retry-After header asks for, 60 when the header is absent
ExpectedRetryAfterSeconds(header) ==
    CASE header = NULL -> 60
      [] header = "1" -> 1
      [] header = "2" -> 2

\* C35: the delay before retry number k (k = 0, 1, 2) is 1000 * 2^k ms after
\* a 5xx response or a network-level failure; after a 429 it is the
\* Retry-After header's seconds times 1000, and 60 s without the header
C35_RetryDelays ==
    \A i \in 1..Len(sleeps) :
        /\ i <= Len(ExpectedBackoffMs)
        /\ IF fetches[i].kind = "response" /\ fetches[i].status = TOO_MANY_REQUESTS
           THEN sleeps[i] = ExpectedRetryAfterSeconds(fetches[i].retryAfter) * 1000
           ELSE sleeps[i] = ExpectedBackoffMs[i]

\* three retries: after a network failure, after a 5xx and after another
\* network failure, 1000, 2000 and 4000 ms
C35_Witness ==
    /\ Len(sleeps) = 3
    /\ fetches[1].kind = "network"
    /\ fetches[2].kind = "response" /\ fetches[2].status >= INTERNAL_SERVER_ERROR
    /\ fetches[3].kind = "network"
    /\ sleeps = <<1000, 2000, 4000>>

\* a 429 without the header, a 429 asking for 2 s, then a 5xx as retry 2
C35_WitnessRateLimit ==
    /\ Len(sleeps) = 3
    /\ fetches[1].status = TOO_MANY_REQUESTS /\ fetches[1].retryAfter = NULL
    /\ fetches[2].status = TOO_MANY_REQUESTS /\ fetches[2].retryAfter = "2"
    /\ fetches[3].status = 503
    /\ sleeps = <<60000, 2000, 4000>>

(***************************************************************************)
(* Claims about the path search                                            *)
(***************************************************************************)
HasEdge(sm, a, b) ==
    \E i \in 1..Len(OutEdges(sm, a)) : OutEdges(sm, a)[i].key = b
QueryFromId == ResolveStatusId(pfMachine, pfQuery.from)
QueryToId == ResolveStatusId(pfMachine, pfQuery.to)

\* C4: findShortestTransitionPath(graph, A, A, exclusions) returns the empty
\* path, never null and never an exception, for every graph (cyclic or not),
\* every status A and every exclusion list, also one that contains A.
C4_SameStatusEmptyPath ==
    (pfPc = "shortest" /\ pfQuery.from = pfQuery.to)
        => pfResult = ReturnedPath(<<>>)

C4_Witness ==
    /\ pfPc = "shortest"
    /\ pfQuery.from = pfQuery.to
    /\ pfQuery.from \in pfQuery.exclude
    /\ \E b \in StatusIds \ {QueryFromId} :
          HasEdge(pfMachine, QueryFromId, b) /\ HasEdge(pfMachine, b, QueryFromId)
    /\ pfResult = ReturnedPath(<<>>)

\* C5 as stated: for every pair (A, B) with B in the exclusion list the
\* search returns null.
C5_ExcludedTargetNullAnyPair ==
    (pfPc = "shortest" /\ pfQuery.to \in pfQuery.exclude)
        => pfResult = ReturnedNull

\* C5 (amended): for every pair of distinct statuses (A, B) with B in the
\* exclusion list the search returns null, whether or not an edge A -> B
\* exists.
C5_ExcludedTargetNull ==
    (pfPc = "shortest" /\ pfQuery.to \in pfQuery.exclude
     /\ pfQuery.from # pfQuery.to)
        => pfResult = ReturnedNull

C5_Witness ==
    /\ pfPc = "shortest"
    /\ pfQuery.to \in pfQuery.exclude
    /\ pfQuery.from # pfQuery.to
    /\ HasEdge(pfMachine, QueryFromId, QueryToId)
    /\ pfResult = ReturnedNull

\* C6: no path returned by findShortestTransitionPath contains a step whose
\* destination status is named in the exclusion list.
C6_NoExcludedDestination ==
    (pfPc = "shortest" /\ pfResult.kind = "path")
        => \A i \in 1..Len(pfResult.path) :
              pfResult.path[i].toName \notin pfQuery.exclude

\* a path was returned although the source also has an edge to another
\* status that is excluded
C6_Witness ==
    /\ pfPc = "shortest"
    /\ pfResult.kind = "path"
    /\ Len(pfResult.path) >= 1
    /\ \E x \in ExcludeStatusIds(pfMachine, pfQuery.exclude) \ {QueryFromId} :
          HasEdge(pfMachine, QueryFromId, x)

\* C7: with an empty exclusion list the path findShortestTransitionPath
\* returns for (A, B) has at most as many steps as every path that
\* findAllTransitionPaths returns for the same (A, B).
C7_ShortestIsShortest ==
    (pfPc = "all" /\ pfResult.kind = "paths")
        => LET shortest == findShortestTransitionPath(pfMachine, pfQuery.from,
                                                      pfQuery.to, {})
           IN \A i \in 1..Len(pfResult.paths) :
                 /\ shortest.kind = "path"
                 /\ Len(shortest.path) <= Len(pfResult.paths[i])

\* findAllTransitionPaths returned a one-step and a two-step path
C7_Witness ==
    /\ pfPc = "all"
    /\ pfResult.kind = "paths"
    /\ \E i, j \in 1..Len(pfResult.paths) :
          Len(pfResult.paths[i]) = 2 /\ Len(pfResult.paths[j]) = 1 /\ i < j
    /\ Len(findShortestTransitionPath(pfMachine, pfQuery.from,
                                      pfQuery.to, {}).path) = 1

\* the statuses from which the index holds an edge to the destination of t
EdgeSources(sm, t) == {s \in StatusIds : HasEdge(sm, s, t.to)}
\* the statuses under which the index holds t itself
IndexedUnder(sm, t) ==
    {s \in DOMAIN sm.transitionMap :
        \E i \in 1..Len(sm.transitionMap[s]) : sm.transitionMap[s][i].value = t}

\* C22: in the graph built from a workflow, a transition with an empty
\* from-list gives an edge s -> to from every status s of the workflow, a
\* transition with a non-empty from-list gives an edge from each status it
\* lists and is indexed under no other status, and every edge of the index
\* comes from a transition in one of these two ways
C22_GlobalTransitionFromEveryStatus ==
    pfPc \in {"shortest", "all"} =>
        /\ \A i \in 1..Len(pfMachine.transitions) :
              LET t == pfMachine.transitions[i]
              IN IF t.from = {}
                 THEN EdgeSources(pfMachine, t) = DOMAIN pfMachine.states
                 ELSE /\ t.from \subseteq EdgeSources(pfMachine, t)
                      /\ IndexedUnder(pfMachine, t) \subseteq t.from
        /\ \A s \in DOMAIN pfMachine.transitionMap :
              \A j \in 1..Len(pfMachine.transitionMap[s]) :
                 LET e == pfMachine.transitionMap[s][j]
                 IN /\ \E i \in 1..Len(pfMachine.transitions) :
                          e.value = pfMachine.transitions[i]
                    /\ e.key = e.value.to
                    /\ e.value.from = {} \/ s \in e.value.from

\* a graph built from one global transition and one transition that lists a
\* single status
C22_Witness ==
    /\ pfPc \in {"shortest", "all"}
    /\ Len(pfMachine.transitions) = 2
    /\ pfMachine.transitions[1].from = {}
    /\ Cardinality(pfMachine.transitions[2].from) = 1
    /\ pfMachine.transitions[2].to # pfMachine.transitions[1].to
    /\ EdgeSources(pfMachine, pfMachine.transitions[1]) = StatusIds
    /\ EdgeSources(pfMachine, pfMachine.transitions[2]) = pfMachine.transitions[2].from

\* the paths a finished search returned
ReturnedPathSet ==
    IF pfResult.kind = "path" THEN {pfResult.path}
    ELSE IF pfResult.kind = "paths"
    THEN {pfResult.paths[i] : i \in 1..Len(pfResult.paths)}
    ELSE {}

\* C25: no path returned by findShortestTransitionPath or by
\* findAllTransitionPaths has more than MAX_PATH_DEPTH steps, whatever the
\* size of the workflow
C25_NoPathLongerThanCap ==
    \A p \in ReturnedPathSet : Len(p) <= MAX_PATH_DEPTH

\* what both searches do bound: no returned path has more than
\* MAX_PATH_DEPTH + 1 steps
PathsWithinCapPlusOne ==
    \A p \in ReturnedPathSet : Len(p) <= MAX_PATH_DEPTH + 1

\* each search returned a path of MAX_PATH_DEPTH + 1 steps
ShortestReturnedElevenSteps ==
    pfPc = "shortest" /\ \E p \in ReturnedPathSet : Len(p) = MAX_PATH_DEPTH + 1
AllReturnedElevenSteps ==
    pfPc = "all" /\ \E p \in ReturnedPathSet : Len(p) = MAX_PATH_DEPTH + 1

\* the statuses a path passes, its source first
StatusesAlong(p) == <<p[1].from>> \o [i \in 1..Len(p) |-> p[i].to]
\* the step is an edge of the index, under the names the graph gives its ends
IsIndexedEdge(sm, step) ==
    /\ step.from \in DOMAIN sm.states
    /\ step.to \in DOMAIN sm.states
    /\ \E i \in 1..Len(OutEdges(sm, step.from)) :
          LET e == OutEdges(sm, step.from)[i]
          IN e.key = step.to /\ e.value.id = step.id /\ e.value.name = step.name
    /\ step.fromName = sm.states[step.from].name
    /\ step.toName = sm.states[step.to].name
IsChain(sm, p, fromId, toId) ==
    IF Len(p) = 0 THEN fromId = toId
    ELSE /\ p[1].from = fromId
         /\ p[Len(p)].to = toId
         /\ \A i \in 1..Len(p) : IsIndexedEdge(sm, p[i])
         /\ \A i \in 1..(Len(p) - 1) : p[i].to = p[i + 1].from
         /\ \A i, j \in 1..(Len(p) + 1) :
               i # j => StatusesAlong(p)[i] # StatusesAlong(p)[j]

\* C26: every path returned by findShortestTransitionPath and by
\* findAllTransitionPaths is a chain of edges of the index: its first step
\* starts at the source, each step starts where the step before ends, its
\* last step ends at the target, and no status occurs twice on it
C26_PathsAreSimpleChains ==
    \A p \in ReturnedPathSet : IsChain(pfMachine, p, QueryFromId, QueryToId)

\* findAllTransitionPaths returned a two-step path and a one-step path in a
\* graph where the middle status also has an edge to itself or back
C26_Witness ==
    /\ pfPc = "all"
    /\ \E p, q \in ReturnedPathSet :
          /\ Len(p) = 2
          /\ Len(q) = 1
          /\ \/ HasEdge(pfMachine, p[1].to, p[1].from)
             \/ HasEdge(pfMachine, p[1].to, p[1].to)

\* the statuses reachable from fromId in at most k steps of the index when
\* no step but one into toId may enter a status of excluded
RECURSIVE WithinSteps(_, _, _, _, _)
WithinSteps(sm, fromId, toId, excluded, k) ==
    IF k = 0 THEN {fromId}
    ELSE LET before == WithinSteps(sm, fromId, toId, excluded, k - 1)
         IN before \cup
            {t \in DOMAIN sm.states :
                /\ t \notin excluded \/ t = toId
                /\ \E s \in before \ {toId} : HasEdge(sm, s, t)}
\* the least number of such steps from fromId to toId; 0 when there is none
Distance(sm, fromId, toId, excluded) ==
    LET n == Cardinality(DOMAIN sm.states)
        ks == {k \in 1..n : toId \in WithinSteps(sm, fromId, toId, excluded, k)}
    IN IF ks = {} THEN 0 ELSE CHOOSE k \in ks : \A j \in ks : k <= j

\* C27: on a workflow too small to reach the depth cap, for A # B the
\* search returns null exactly when B is excluded or no path leads from A to
\* B through statuses outside the exclusion list, and otherwise returns a
\* path of the least number of steps among the paths that do
C27_NullOnlyWithoutAdmissiblePath ==
    (pfPc = "shortest" /\ pfQuery.from # pfQuery.to) =>
        LET excluded == {id \in DOMAIN pfMachine.states :
                            pfMachine.states[id].name \in pfQuery.exclude}
            d == Distance(pfMachine, QueryFromId, QueryToId, excluded)
        IN IF QueryToId \in excluded \/ d = 0
           THEN pfResult = ReturnedNull
           ELSE /\ pfResult.kind = "path"
                /\ Len(pfResult.path) = d
                /\ IsChain(pfMachine, pfResult.path, QueryFromId, QueryToId)
                /\ \A i \in 1..(Len(pfResult.path) - 1) :
                      pfResult.path[i].to \notin excluded

\* the search returned a two-step path from a source that is itself excluded
C27_Witness ==
    /\ pfPc = "shortest"
    /\ pfQuery.from # pfQuery.to
    /\ pfQuery.from \in pfQuery.exclude
    /\ pfQuery.to \notin pfQuery.exclude
    /\ pfResult.kind = "path"
    /\ Len(pfResult.path) = 2

\* the target is not excluded and is reachable, but only through an
\* excluded status: the search returned null
C27_WitnessNull ==
    /\ pfPc = "shortest"
    /\ pfQuery.from # pfQuery.to
    /\ pfQuery.to \notin pfQuery.exclude
    /\ pfResult = ReturnedNull
    /\ Distance(pfMachine, QueryFromId, QueryToId, {}) = 2

\* the positions, in the backend's enumeration, of the transitions that
\* connect the ordered pair (from, to), directly or as expanded global ones
Connecting(wf, from, to) ==
    {i \in 1..Len(wf.transitions) :
        /\ wf.transitions[i].to = to
        /\ wf.transitions[i].from = {} \/ from \in wf.transitions[i].from}
LatestConnecting(wf, from, to) ==
    wf.transitions[CHOOSE i \in Connecting(wf, from, to) :
                      \A j \in Connecting(wf, from, to) : j <= i]
EntriesFor(sm, from, to) ==
    {j \in 1..Len(OutEdges(sm, from)) : OutEdges(sm, from)[j].key = to}

\* C33: the graph index holds at most one transition per ordered (from, to)
\* pair of statuses, none when no transition connects the pair; when several
\* transitions connect it, the one latest in the backend's enumeration is
\* the one stored, and it is the one every returned path takes for that edge
C33_LatestTransitionPerPair ==
    pfPc \in {"shortest", "all"} =>
        /\ \A from \in StatusIds, to \in StatusIds :
              IF Connecting(wfDef, from, to) = {}
              THEN EntriesFor(pfMachine, from, to) = {}
              ELSE /\ Cardinality(EntriesFor(pfMachine, from, to)) = 1
                   /\ \A j \in EntriesFor(pfMachine, from, to) :
                         OutEdges(pfMachine, from)[j].value =
                            LatestConnecting(wfDef, from, to)
        /\ \A p \in ReturnedPathSet : \A i \in 1..Len(p) :
              /\ Connecting(wfDef, p[i].from, p[i].to) # {}
              /\ p[i].id = LatestConnecting(wfDef, p[i].from, p[i].to).id
              /\ p[i].name = LatestConnecting(wfDef, p[i].from, p[i].to).name

\* two transitions connect one pair, a direct one and a later global one,
\* and a returned path takes the edge with the later one
C33_Witness ==
    /\ pfPc \in {"shortest", "all"}
    /\ \E p \in ReturnedPathSet : \E i \in 1..Len(p) :
          /\ Cardinality(Connecting(wfDef, p[i].from, p[i].to)) = 2
          /\ wfDef.transitions[1].from # {}
          /\ wfDef.transitions[2].from = {}
          /\ p[i].id = 2

(***************************************************************************)
(* Claims about the cache                                                  *)
(***************************************************************************)
\* a call that started after some call for its name had returned a graph
LaterCall(c) == callers[c].pc # "idle" /\ callers[c].name \in WorkflowNames
                /\ callers[c].firstThen # 0

\* C8 as stated: once one call for a name has completed successfully, every
\* later call for that name issues no backend request and returns the very
\* object that call returned.
C8_LaterCallsReturnFirstObject ==
    \A c \in Callers :
        LaterCall(c) => /\ callers[c].pc = "returned"
                        /\ ~callers[c].fetched
                        /\ callers[c].result = callers[c].firstThen

\* C8 (amended): once one call for a name has completed successfully, every
\* later call for that name issues no backend request and returns the object
\* cached under that name; it is the very object the first call returned
\* when no other fetch of that name was in flight as the first call
\* completed; distinct names hold distinct objects, each built for its name.
C8_LaterCallsHitCache ==
    /\ \A c \in Callers :
          LaterCall(c) =>
             /\ callers[c].pc = "returned"
             /\ ~callers[c].fetched
             /\ callers[c].result \in 1..Len(heap)
             /\ heap[callers[c].result].name = callers[c].name
             /\ (~callers[c].racedThen =>
                    /\ callers[c].result = callers[c].firstThen
                    /\ stateMachineCache[callers[c].name] = callers[c].firstThen)
    /\ \A n, m \in DOMAIN stateMachineCache :
          /\ heap[stateMachineCache[n]].name = n
          /\ (n # m => stateMachineCache[n] # stateMachineCache[m])

\* both names are cached, and a later call for one of them was served the
\* first object without a fetch
C8_Witness ==
    /\ DOMAIN stateMachineCache = WorkflowNames
    /\ \E c \in Callers :
          /\ LaterCall(c)
          /\ ~callers[c].racedThen
          /\ ~callers[c].fetched
          /\ callers[c].result = callers[c].firstThen

\* the graphs built so far for a name, by their position in the heap
BuiltFor(name) == {i \in 1..Len(heap) : heap[i].name = name}
FetchInFlight(name) ==
    \E d \in Callers : callers[d].pc = "fetching" /\ callers[d].name = name

\* the cache entry of a name is the graph written last for that name
CacheHoldsLastWritten ==
    \A n \in WorkflowNames :
        /\ n \in DOMAIN stateMachineCache <=> BuiltFor(n) # {}
        /\ n \in DOMAIN stateMachineCache =>
              /\ stateMachineCache[n] \in BuiltFor(n)
              /\ \A i \in BuiltFor(n) : i <= stateMachineCache[n]

\* with a name cached and no fetch of it in flight, a step leaves the entry
\* as it is, and a call for the name made in that step returns the entry
\* without a fetch
SettledEntryServes ==
    \A n \in WorkflowNames :
        (n \in DOMAIN stateMachineCache /\ ~FetchInFlight(n)) =>
            /\ n \in DOMAIN stateMachineCache'
            /\ stateMachineCache'[n] = stateMachineCache[n]
            /\ \A c \in Callers :
                  (callers'[c] # callers[c] /\ callers'[c].name = n) =>
                     /\ callers'[c].pc = "returned"
                     /\ ~callers'[c].fetched
                     /\ callers'[c].result = stateMachineCache[n]

\* C21: two calls for one uncached name that are in flight together may both
\* fetch and both write the entry; the cache then holds for the name the one
\* graph written last, and once no fetch of the name is in flight every
\* later call returns that graph without a fetch
C21_RacingFetchesLastWriteWins ==
    []CacheHoldsLastWritten /\ [][SettledEntryServes]_vars

\* both callers fetched the same name while it was uncached, both wrote the
\* entry, and the cache holds the second graph
C21_Witness ==
    \E n \in WorkflowNames :
        /\ \A c \in Callers :
              /\ callers[c].pc = "returned"
              /\ callers[c].fetched
              /\ callers[c].name = n
        /\ Cardinality({callers[c].result : c \in Callers}) = 2
        /\ Cardinality(BuiltFor(n)) = 2
        /\ stateMachineCache[n] = CHOOSE i \in BuiltFor(n) : \A j \in BuiltFor(n) : j <= i

\* a call that got a response listing no workflow has thrown a
\* JiraWorkflowError, and a name for which no graph was ever built has no
\* cache entry
NotFoundThrows ==
    /\ \A c \in Callers :
          callers[c].values = "[]" =>
             /\ callers[c].pc = "thrown"
             /\ callers[c].error = "JiraWorkflowError"
             /\ callers[c].result = 0
    /\ \A n \in WorkflowNames : BuiltFor(n) = {} => n \notin DOMAIN stateMachineCache

\* the step in which a fetch fails leaves the cache and the stored graphs as
\* they were, and a call that starts for a name without an entry fetches
FailureCachesNothing ==
    \A c \in Callers :
        /\ (callers[c].pc = "fetching" /\ callers'[c].pc = "thrown") =>
              /\ stateMachineCache' = stateMachineCache
              /\ heap' = heap
        /\ (NotRunning(c) /\ callers'[c] # callers[c]
              /\ callers'[c].name \in WorkflowNames \ DOMAIN stateMachineCache) =>
              /\ callers'[c].pc = "fetching"
              /\ callers'[c].fetched

\* C23: a fetch answered with zero workflows fails with a JiraWorkflowError;
\* that failure, like every failed fetch, writes nothing to the cache, so a
\* name that no call has fetched with success has no entry and a later call
\* for it fetches again
C23_NotFoundThrowsAndCachesNothing ==
    []NotFoundThrows /\ [][FailureCachesNothing]_vars

\* a call for a name was answered with zero workflows, the name has no
\* entry, and a call for the same name that started after that failure has
\* issued a fetch of its own
C23_Witness ==
    \E c, d \in Callers :
        /\ callers[c].values = "[]"
        /\ callers[c].error = "JiraWorkflowError"
        /\ callers[c].name \notin DOMAIN stateMachineCache
        /\ d # c
        /\ callers[d].name = callers[c].name
        /\ callers[d].afterFailure
        /\ callers[d].pc = "fetching"

(***************************************************************************)
(* Claims about transitionIssue and the bulk update                        *)
(***************************************************************************)
\* what transitionIssue itself has requested for a task, in order
TransitionLog(task) == SelectSeq(task.log, LAMBDA e : e.by = "transitionIssue")
StatusGet == [by |-> "transitionIssue", req |-> "GET issue", arg |-> 0,
              fields |-> NoFields]
\* the status GET of the task has answered with the target status
ReadAtTarget(task) == task.current # NULL /\ task.current = bulkArgs.target

\* C9: a transitionIssue call whose status GET reads the target status has
\* issued that GET and no other request (no project, scheme or workflow
\* fetch, no getTransitions, no POST), has searched no path, and has
\* returned true
C9_AtTargetOnlyStatusGet ==
    \A k \in 1..Len(tasks) :
        ReadAtTarget(tasks[k]) =>
            /\ TransitionLog(tasks[k]) = <<StatusGet>>
            /\ tasks[k].returned
            /\ ~tasks[k].searched
            /\ tasks[k].sm = 0
            /\ tasks[k].path = <<>>
            /\ tasks[k].pc = "rejected" =>
                  tasks[k].log[Len(tasks[k].log)].req = "PUT issue"

\* a call that found its issue at the target and returned, while another
\* call of the same batch went on to transition its issue
C9_Witness ==
    \E k \in 1..Len(tasks), j \in 1..Len(tasks) :
        /\ ReadAtTarget(tasks[k])
        /\ tasks[k].returned
        /\ tasks[k].pc = "fulfilled"
        /\ Len(TransitionLog(tasks[j])) > 1

\* the issueKeys argument holds distinct keys that pass the key validation of
\* the function called
DistinctValidInput ==
    /\ \A i, j \in 1..Len(bulkInput) : i # j => bulkInput[i] # bulkInput[j]
    /\ \A i \in 1..Len(bulkInput) :
          IF bulkVariant = "jira"
          THEN MatchesIssueKeyPattern(ToUpperCase(bulkInput[i]))
          ELSE isValidIssueKey(bulkInput[i])
FailedKeys == {k \in 1..Len(tasks) : tasks[k].pc = "rejected"}

\* C10: a bulk update over N distinct valid keys has a call in flight or
\* settled for every one of the N keys from the moment it is dispatched,
\* whichever calls have failed by then; when it returns, every call has
\* settled and, M being the number of calls that failed, successful = N - M,
\* failed = M and errors has M entries
C10_BulkAttemptsAllAndCounts ==
    (bulkPc \in {"running", "done"} /\ DistinctValidInput) =>
        /\ Len(tasks) = Len(bulkInput)
        /\ \A k \in 1..Len(tasks) :
              /\ tasks[k].raw = bulkInput[k]
              /\ tasks[k].log # <<>>
        /\ bulkPc = "done" =>
              /\ \A k \in 1..Len(tasks) : Settled(tasks[k])
              /\ bulkResult.successful = Len(bulkInput) - Cardinality(FailedKeys)
              /\ bulkResult.failed = Cardinality(FailedKeys)
              /\ Len(bulkResult.errors) = Cardinality(FailedKeys)

\* a batch of two keys has returned 1 successful, 1 failed: the first key
\* failed first, and the second key was then transitioned to the end
C10_Witness ==
    /\ bulkPc = "done"
    /\ DistinctValidInput
    /\ Len(tasks) = 2
    /\ tasks[1].pc = "rejected" /\ tasks[1].settledAt = 1
    /\ tasks[2].pc = "fulfilled" /\ tasks[2].settledAt = 2
    /\ \E i \in 1..Len(tasks[2].log) : tasks[2].log[i].req = "POST transition"
    /\ bulkResult.successful = 1 /\ bulkResult.failed = 1
    /\ Len(bulkResult.errors) = 1

\* the distinct valid keys of the issueKeys argument
DistinctValidKeys ==
    {bulkInput[i] : i \in {j \in 1..Len(bulkInput) : isValidIssueKey(bulkInput[j])}}

\* C12: updateIssuesFromCommitHistory of update_jira has exactly one
\* updateIssueWithCustomFields call per distinct valid key of its input, so a
\* key given several times is updated once; when it returns,
\* successful + failed is the number of distinct valid keys
C12_OneUpdatePerDistinctValidKey ==
    (bulkVariant = "action" /\ bulkPc \in {"running", "done"}) =>
        /\ Len(tasks) = Cardinality(DistinctValidKeys)
        /\ {tasks[k].raw : k \in 1..Len(tasks)} = DistinctValidKeys
        /\ \A j, k \in 1..Len(tasks) : j # k => tasks[j].raw # tasks[k].raw
        /\ bulkPc = "done" =>
              bulkResult.successful + bulkResult.failed
                 = Cardinality(DistinctValidKeys)

\* the same valid key was given twice and the batch returned after one update
C12_Witness ==
    /\ bulkVariant = "action"
    /\ bulkPc = "done"
    /\ Len(bulkInput) = 2
    /\ bulkInput[1] = bulkInput[2]
    /\ isValidIssueKey(bulkInput[1])
    /\ Len(tasks) = 1
    /\ bulkResult.successful + bulkResult.failed = 1

\* the calls of the batch that failed, in dispatch order
FailedTasks == SelectSeq(tasks, LAMBDA t : t.pc = "rejected")

\* C13: every entry of the errors list that updateIssuesFromCommitHistory of
\* update_jira returns carries the key of the issue whose update failed,
\* whatever kind of error made it fail
C13_ErrorsCarryIssueKey ==
    (bulkVariant = "action" /\ bulkPc = "done") =>
        /\ Len(bulkResult.errors) = Len(FailedTasks)
        /\ \A i \in 1..Len(bulkResult.errors) :
              bulkResult.errors[i].issueKey = FailedTasks[i].raw

\* the positions of the entries of a task's log that are requests of one kind
Entries(task, req) == {i \in 1..Len(task.log) : task.log[i].req = req}

\* C14: updateIssueWithCustomFields never puts a deployment custom field in
\* the payload of a transition POST; the custom fields go in one PUT, which is
\* the last request of the update and is issued only when transitionIssue
\* has returned, that is after every transition POST of the issue completed
C14_CustomFieldsInSeparatePutAfterPosts ==
    \A k \in 1..Len(tasks) :
        LET task == tasks[k]
        IN /\ \A i \in Entries(task, "POST transition") :
                 DOMAIN task.log[i].fields \cap DOMAIN DeploymentFields = {}
           /\ \A i \in Entries(task, "PUT issue") :
                 /\ i = Len(task.log)
                 /\ task.returned
                 /\ task.log[i].fields = DeploymentFields
                 /\ Cardinality(Entries(task, "POST transition")) = Len(task.path)
                 /\ \A j \in Entries(task, "POST transition") : j < i

\* an update posted its two transitions and then sent the PUT
C14_Witness ==
    \E k \in 1..Len(tasks) :
        /\ Cardinality(Entries(tasks[k], "POST transition")) = 2
        /\ Entries(tasks[k], "PUT issue") # {}
        /\ tasks[k].pc = "fulfilled"

\* the transition POSTs of a task, in the order they were issued
Posts(task) == SelectSeq(task.log, LAMBDA e : e.req = "POST transition")
\* every transition the backend can list for an issue, whatever its status
BackendTransitions ==
    UNION {{LiveTransitions(st)[i] : i \in 1..Len(LiveTransitions(st))} :
              st \in StatusNames}
LastRequest(task) == task.log[Len(task.log)].req

\* C16: the transition posted at a step is one that matches the planned
\* transition of that step, by id or by destination name and transition name;
\* a call that found no such transition among the live ones has thrown a
\* JiraTransitionError right after getTransitions, with one POST for each
\* earlier step and none for that step or a later one
C16_UnavailableTransitionNotPosted ==
    \A k \in 1..Len(tasks) :
        LET task == tasks[k]
        IN /\ Len(Posts(task)) <= Len(task.path)
           /\ \A i \in 1..Len(Posts(task)) :
                 \E t \in BackendTransitions :
                    /\ t.id = Posts(task)[i].arg
                    /\ MatchesPlanned(t, task.path[i])
           /\ task.error.message = "Transition not available" =>
                 /\ task.pc = "rejected"
                 /\ task.error.name = "JiraTransitionError"
                 /\ LastRequest(task) = "GET transitions"
                 /\ Len(Posts(task)) = task.step - 1

\* a call planned a transition that another call on the same issue had
\* already made, found it missing from the live list, and threw
C16_Witness ==
    \E k \in 1..Len(tasks) :
        /\ tasks[k].error.message = "Transition not available"
        /\ tasks[k].pc = "rejected"
        /\ Len(tasks[k].path) >= 1

\* the result of the path search a call made once it had its state machine
Searched(task) ==
    findShortestTransitionPath(heap[task.sm], task.current, bulkArgs.target,
                               bulkArgs.exclude)
Requests(task) == {task.log[i].req : i \in 1..Len(task.log)}

\* C17: a call whose path search returned null, the excluded target
\* included, has thrown a JiraTransitionError and has issued neither a
\* getTransitions request nor a transition POST nor a field update
C17_NoPathThrowsBeforeAnyWrite ==
    \A k \in 1..Len(tasks) :
        LET task == tasks[k]
        IN (task.searched /\ Searched(task) = ReturnedNull) =>
              /\ task.pc = "rejected"
              /\ task.error.name = "JiraTransitionError"
              /\ task.error.message = "No transition path found"
              /\ task.path = <<>>
              /\ Requests(task) \cap {"GET transitions", "GET transition details",
                                      "POST transition", "PUT issue"} = {}

\* the target is reachable in the workflow but is on the exclusion list
C17_Witness ==
    \E k \in 1..Len(tasks) :
        /\ tasks[k].searched
        /\ Searched(tasks[k]) = ReturnedNull
        /\ bulkArgs.target \in bulkArgs.exclude
        /\ tasks[k].pc = "rejected"

\* the target is not excluded, but every path to it crosses an excluded status
C17_WitnessBlocked ==
    \E k \in 1..Len(tasks) :
        /\ tasks[k].searched
        /\ Searched(tasks[k]) = ReturnedNull
        /\ bulkArgs.target \notin bulkArgs.exclude
        /\ tasks[k].pc = "rejected"

\* the payload of every step but the last holds none of the caller's fields
NonLastStepsCarryNoCallerField ==
    \A k \in 1..Len(tasks) :
        \A i \in 1..Len(Posts(tasks[k])) :
            i < Len(tasks[k].path) =>
               DOMAIN Posts(tasks[k])[i].fields \cap DOMAIN tasks[k].fields = {}

\* C18: the payload of every step but the last holds none of the caller's
\* fields, and the payload of the last step holds every field the caller
\* supplied with the value the caller gave it, a required field included
C18_CallerFieldsOnLastStepAsGiven ==
    /\ NonLastStepsCarryNoCallerField
    /\ \A k \in 1..Len(tasks) :
          LET task == tasks[k]
          IN Len(Posts(task)) = Len(task.path) /\ Len(task.path) > 0 =>
                \A f \in DOMAIN task.fields :
                    /\ f \in DOMAIN Posts(task)[Len(task.path)].fields
                    /\ Posts(task)[Len(task.path)].fields[f] = task.fields[f]

\* a two-step call posted its last step with the resolution the caller named
C18_AsGivenReached ==
    \E k \in 1..Len(tasks) :
        /\ Len(tasks[k].path) = 2
        /\ Len(Posts(tasks[k])) = 2
        /\ "resolution" \in DOMAIN tasks[k].fields
        /\ Posts(tasks[k])[2].fields = tasks[k].fields
        /\ Posts(tasks[k])[1].fields = NoFields

\* C19: a call that found a required field missing and could produce no
\* default for it has thrown a JiraTransitionError right after the lookup of
\* the default, with one POST for each earlier step and none for that step
\* or a later one; a POST that follows such a lookup carries the default
C19_MissingRequiredFieldThrowsBeforePost ==
    \A k \in 1..Len(tasks) :
        LET task == tasks[k]
        IN /\ task.error.message = "Required fields cannot be populated" =>
                 /\ task.pc = "rejected"
                 /\ task.error.name = "JiraTransitionError"
                 /\ LastRequest(task) = "GET resolution"
                 /\ Len(Posts(task)) = task.step - 1
           /\ \A i \in 2..Len(task.log) :
                 (task.log[i].req = "POST transition"
                    /\ task.log[i - 1].req = "GET resolution") =>
                       ~NotProvided(task.log[i].fields, "resolution")

\* the last step requires a resolution, the caller gave none and the backend
\* lists no resolution: the call threw after the POST of its first step
C19_Witness ==
    \E k \in 1..Len(tasks) :
        /\ tasks[k].error.message = "Required fields cannot be populated"
        /\ tasks[k].fields = NoFields
        /\ tasks[k].step = 2
        /\ Len(Posts(tasks[k])) = 1

\* the positions in a task's log of the requests named req
Positions(task, req) == {i \in 1..Len(task.log) : task.log[i].req = req}

\* C20: the steps of a call run in path order, one at a time: the i-th POST
\* is the transition planned for step i and comes after the i-th
\* getTransitions request, and every getTransitions request after the first
\* comes directly after the 500 ms delay, which itself was started once the
\* POST of the step before had completed; while the delay runs the call
\* issues nothing
C20_StepsInOrderAfterPostAndDelay ==
    \A k \in 1..Len(tasks) :
        LET task == tasks[k]
            gets == Positions(task, "GET transitions")
            posts == Positions(task, "POST transition")
            delays == Positions(task, "sleep")
        IN /\ Cardinality(gets) = task.step
           /\ Cardinality(posts) \in {task.step - 1, task.step}
           /\ task.step <= Len(task.path)
           /\ \A i \in 1..Len(Posts(task)) :
                 \E t \in BackendTransitions :
                    t.id = Posts(task)[i].arg /\ MatchesPlanned(t, task.path[i])
           /\ \A p \in posts :
                 Cardinality({g \in gets : g < p}) = Cardinality({q \in posts : q <= p})
           /\ \A g \in gets :
                 Cardinality({h \in gets : h < g}) > 0 =>
                    /\ g >= 3
                    /\ task.log[g - 1].req = "sleep"
                    /\ task.log[g - 1].arg = TRANSITION_MS
                    /\ task.log[g - 2].req = "POST transition"
           /\ task.pc = "sleep" =>
                 /\ LastRequest(task) = "sleep"
                 /\ Cardinality(posts) = task.step
           /\ Cardinality(delays) = IF task.pc = "sleep" THEN task.step
                                     ELSE IF task.step = 0 THEN 0 ELSE task.step - 1

\* a two-step call has posted its second step after the delay
C20_Witness ==
    \E k \in 1..Len(tasks) :
        /\ Len(tasks[k].path) = 2
        /\ Len(Posts(tasks[k])) = 2
        /\ Cardinality(Positions(tasks[k], "sleep")) = 1

\* every stored graph is the graph its fetch built
StoredGraphsAsBuilt ==
    \A i \in 1..Len(heap) :
        heap[i] = BuildStateMachine(BackendWorkflow(heap[i].name))
\* a step keeps every stored graph as it is, whatever else it stores
StoredGraphsKept ==
    /\ Len(heap') >= Len(heap)
    /\ \A i \in 1..Len(heap) : heap'[i] = heap[i]

C24_WitnessPath ==
    /\ Len(heap) = 2
    /\ \E j \in 1..Len(tasks) :
          /\ tasks[j].searched
          /\ tasks[j].sm = 1
          /\ Len(tasks[j].path) = 2
          /\ Len(Posts(tasks[j])) = 2

\* a search on the first graph threw a JiraValidationError
C24_WitnessThrown ==
    /\ Len(heap) = 2
    /\ \E j \in 1..Len(tasks) :
          /\ tasks[j].searched
          /\ tasks[j].sm = 1
          /\ tasks[j].error.name = "JiraValidationError"

AvailableIds(task) == {task.available[i].id : i \in 1..Len(task.available)}

\* C28: the id a call posts is the id of an entry of the live list it
\* fetched for the issue in the same step, an entry that matches the planned
\* transition; that list was requested after the POST of the step before
\* had completed, and no POST is issued without it
C28_PostedIdComesFromLiveList ==
    \A k \in 1..Len(tasks) :
        LET task == tasks[k]
            gets == Positions(task, "GET transitions")
            posts == Positions(task, "POST transition")
        IN /\ task.pc \in {"details", "options", "post"} =>
                 /\ task.actual \in AvailableIds(task)
                 /\ \E i \in 1..Len(task.available) :
                       /\ task.available[i].id = task.actual
                       /\ MatchesPlanned(task.available[i], task.path[task.step])
           /\ task.pc = "post" =>
                 /\ LastRequest(task) = "POST transition"
                 /\ task.log[Len(task.log)].arg = task.actual
           /\ \A p \in posts :
                 \E g \in gets :
                    /\ g < p
                    /\ \A q \in posts : q < p => q < g

\* a call posts the live transition of its second step, which it looked up
\* after its first POST
C28_Witness ==
    \E k \in 1..Len(tasks) :
        /\ tasks[k].pc = "post"
        /\ tasks[k].step = 2
        /\ Len(Posts(tasks[k])) = 2
        /\ tasks[k].actual \in AvailableIds(tasks[k])
        /\ Posts(tasks[k])[2].arg = tasks[k].actual

\* no other call of the batch works on the issue of task k
OnlyCallOnIssue(k) ==
    \A j \in 1..Len(tasks) : j # k => tasks[j].key # tasks[k].key

\* C29: with a backend whose live transitions are those of the workflow
\* graph and that applies what is posted, and no other call at work on the
\* issue, a call that returned true left the issue at the target status,
\* and from the moment the call has read the status on the issue is in no
\* status of excludeStates other than the one the call found it in
C29_SuccessAtTargetNeverThroughExcluded ==
    \A k \in 1..Len(tasks) :
        (OnlyCallOnIssue(k) /\ tasks[k].current # NULL) =>
            /\ tasks[k].returned => issueStatus[tasks[k].key] = bulkArgs.target
            /\ issueStatus[tasks[k].key] \in bulkArgs.exclude =>
                  issueStatus[tasks[k].key] = tasks[k].current

\* a call that found its issue in an excluded status has moved it to the
\* target and returned true
C29_Witness ==
    \E k \in 1..Len(tasks) :
        /\ OnlyCallOnIssue(k)
        /\ tasks[k].current \in bulkArgs.exclude
        /\ tasks[k].returned
        /\ Len(Posts(tasks[k])) = Len(tasks[k].path)
        /\ Len(tasks[k].path) >= 1
        /\ issueStatus[tasks[k].key] = bulkArgs.target

\* a call has moved its issue over two steps to the target and returned true
C29_WitnessTwoSteps ==
    \E k \in 1..Len(tasks) :
        /\ OnlyCallOnIssue(k)
        /\ tasks[k].returned
        /\ Len(Posts(tasks[k])) = 2
        /\ issueStatus[tasks[k].key] = bulkArgs.target

\* the steps of its path a call has completed: one per delay it started,
\* and the last one once it returned true
CompletedSteps(task) ==
    Cardinality(Positions(task, "sleep"))
       + (IF task.returned /\ Len(task.path) > 0 THEN 1 ELSE 0)
\* the call failed before it returned true
FailedInTransition(task) == task.pc = "rejected" /\ ~task.returned
\* the request that failed is the POST of the current step
FailedInPost(task) ==
    /\ FailedInTransition(task)
    /\ Len(task.log) > 0
    /\ LastRequest(task) = "POST transition"
\* the POSTs issued are those of the first steps of the path, in path order
PostsFollowPath(task) ==
    /\ Len(Posts(task)) <= Len(task.path)
    /\ \A i \in 1..Len(Posts(task)) :
          \E t \in BackendTransitions :
             t.id = Posts(task)[i].arg /\ MatchesPlanned(t, task.path[i])

\* C30 as stated: outside an outstanding POST the number of POSTs a call has
\* issued equals the number of steps it has completed; it equals the path
\* length when the call returned true, a call that failed at step k has
\* issued k - 1 POSTs, and no POST undoes an earlier one.
C30_PostsEqualCompletedSteps ==
    \A k \in 1..Len(tasks) :
        LET task == tasks[k]
        IN /\ task.pc # "post" => Len(Posts(task)) = CompletedSteps(task)
           /\ task.returned => Len(Posts(task)) = Len(task.path)
           /\ (FailedInTransition(task) /\ task.step >= 1) =>
                 Len(Posts(task)) = task.step - 1
           /\ PostsFollowPath(task)

\* C30 (amended): the number of POSTs a call has issued equals the number
\* of steps it has completed, plus one while the POST of the current step is
\* outstanding or when that POST is the request that failed; it equals the
\* path length when the call returned true; a call that failed at step k
\* has completed k - 1 steps and has issued k - 1 POSTs, or k when it failed
\* in the POST of step k; the POSTs are those of the path, in path order,
\* and none undoes an earlier one.
C30_PostsEqualCompletedStepsOrFailedPost ==
    \A k \in 1..Len(tasks) :
        LET task == tasks[k]
            pending == IF task.pc = "post" \/ FailedInPost(task) THEN 1 ELSE 0
        IN /\ Len(Posts(task)) = CompletedSteps(task) + pending
           /\ task.returned =>
                 /\ Len(Posts(task)) = Len(task.path)
                 /\ CompletedSteps(task) = Len(task.path)
           /\ (FailedInTransition(task) /\ task.step >= 1) =>
                 /\ CompletedSteps(task) = task.step - 1
                 /\ Len(Posts(task)) = task.step - 1 + pending
           /\ PostsFollowPath(task)

\* a call completed its first step and failed in the POST of its second
C30_Witness ==
    \E k \in 1..Len(tasks) :
        /\ FailedInPost(tasks[k])
        /\ tasks[k].step = 2
        /\ Len(Posts(tasks[k])) = 2
        /\ CompletedSteps(tasks[k]) = 1

\* C31: with a backend that applies each posted transition, a second
\* transitionIssue call with the same key and target, made after the first
\* one returned true, issues no transition POST; once its status GET is
\* answered it has returned true, and the status GET is its only request
C31_SecondCallIsNoOp ==
    (bulkPc = "second" /\ tasks[1].returned) =>
        /\ issueStatus[tasks[1].key] = bulkArgs.target
        /\ Posts(tasks[2]) = <<>>
        /\ tasks[2].pc \in {"issue", "fulfilled", "rejected"}
        /\ tasks[2].pc = "fulfilled" =>
              /\ tasks[2].returned
              /\ tasks[2].current = bulkArgs.target
              /\ Requests(tasks[2]) = {"GET issue"}
        /\ tasks[2].pc = "rejected" =>
              /\ tasks[2].current = NULL
              /\ tasks[2].error.name = "JiraApiError"

\* the first call moved the issue over two steps and returned true; the
\* second call has returned true after its status GET
C31_Witness ==
    /\ bulkPc = "second"
    /\ tasks[1].returned
    /\ Len(Posts(tasks[1])) = 2
    /\ tasks[2].pc = "fulfilled"
    /\ tasks[2].returned
    /\ Len(tasks[2].log) = 1

\* C32: updateIssueWithCustomFields issues the custom-field PUT for an issue
\* exactly when customFields is non-empty and transitionIssue returned
\* without throwing, the issue already at the target included; an update
\* whose transition threw has issued no PUT
PutIssued(task) == "PUT issue" \in Requests(task)
TransitionThrew(task) == task.pc = "rejected" /\ ~task.returned
C32_PutIffCustomFieldsAndTransitionReturned ==
    (bulkPc \in {"running", "done"} /\ ThroughUpdate(bulkVariant)) =>
        \A k \in 1..Len(tasks) :
            /\ PutIssued(tasks[k]) <=> (bulkArgs.customFields /\ tasks[k].returned)
            /\ TransitionThrew(tasks[k]) => ~PutIssued(tasks[k])

\* one batch with custom fields: an issue already at the target got its PUT
\* without any POST, and another issue's transition threw and got none
C32_Witness ==
    /\ bulkPc = "done"
    /\ ThroughUpdate(bulkVariant)
    /\ bulkArgs.customFields
    /\ \E k \in 1..Len(tasks) :
          /\ tasks[k].pc = "fulfilled"
          /\ Posts(tasks[k]) = <<>>
          /\ PutIssued(tasks[k])
    /\ \E k \in 1..Len(tasks) :
          /\ TransitionThrew(tasks[k])
          /\ tasks[k].current # NULL

\* an update whose transition took a POST got its PUT after it
C32_WitnessAfterPost ==
    /\ ThroughUpdate(bulkVariant)
    /\ \E k \in 1..Len(tasks) :
          /\ tasks[k].pc = "fulfilled"
          /\ Posts(tasks[k]) # <<>>
          /\ tasks[k].log[Len(tasks[k].log)].req = "PUT issue"

\* the default the claim names for a list of options and a preferred name:
\* the id of an option with that name when one is listed, otherwise the id
\* of the first listed option, and none for an empty list
IsNamedDefault(result, options, preferred) ==
    IF \E i \in 1..Len(options) : options[i].name = preferred
    THEN /\ result.kind = "value"
         /\ \E i \in 1..Len(options) :
               options[i].name = preferred /\ options[i].id = result.id
    ELSE IF Len(options) > 0
    THEN result.kind = "value" /\ result.id = options[1].id
    ELSE result.kind = "null" /\ result.id = NULL

\* C36: _getDefaultFieldValue returns, for a resolution field, the id of the
\* option named "Done" when the backend lists one and otherwise the id of
\* the first listed option; for a priority field the same with "Medium";
\* for any other field, and when the list is empty or could not be fetched,
\* it returns null
C36_DefaultFieldValue ==
    dfPc = "returned" =>
        IF IsResolutionField(dfArgs.fieldId, dfArgs.fieldInfo)
        THEN /\ dfFetched.resolution.state \in {"listed", "failed"}
             /\ dfFetched.resolution.state = "failed" => dfResult = NoDefault
             /\ IsNamedDefault(dfResult, dfFetched.resolution.options, "Done")
        ELSE IF IsPriorityField(dfArgs.fieldId, dfArgs.fieldInfo)
        THEN /\ dfFetched.priority.state \in {"listed", "failed"}
             /\ dfFetched.priority.state = "failed" => dfResult = NoDefault
             /\ IsNamedDefault(dfResult, dfFetched.priority.options, "Medium")
        ELSE /\ dfResult = NoDefault
             /\ dfFetched = NotFetched

\* the backend lists "Fixed" before "Done" and the resolution field gets the
\* id of "Done"
C36_Witness ==
    /\ dfPc = "returned"
    /\ dfArgs.fieldId = "resolution"
    /\ Len(dfFetched.resolution.options) = 2
    /\ dfFetched.resolution.options[1].name = "Fixed"
    /\ dfFetched.resolution.options[2].name = "Done"
    /\ dfResult = [kind |-> "value", id |-> dfFetched.resolution.options[2].id]

\* no "Medium" among the listed priorities: the first one is taken
C36_WitnessPriorityFirst ==
    /\ dfPc = "returned"
    /\ dfArgs.fieldInfo.name = "Priority"
    /\ Len(dfFetched.priority.options) = 2
    /\ \A i \in 1..2 : dfFetched.priority.options[i].name # "Medium"
    /\ dfResult = [kind |-> "value", id |-> dfFetched.priority.options[1].id]

\* null for a field that is neither, and for a resolution field whose
\* options could not be fetched
C36_WitnessOther ==
    /\ dfPc = "returned"
    /\ dfArgs.fieldId = "summary"
    /\ dfResult = NoDefault
C36_WitnessFailed ==
    /\ dfPc = "returned"
    /\ dfArgs.fieldInfo.name = "Resolution"
    /\ dfFetched.resolution.state = "failed"
    /\ dfResult = NoDefault

(***************************************************************************)
(* Claims about the batch operations                                       *)
(***************************************************************************)
BatchEnded == bulkPc \in {"done", "thrown"}

\* C11: when updateByStatus, updateByPR or the loop of handlePullRequestEvent
\* has ended, every matched issue has been attempted exactly once, in order,
\* whichever of the attempts failed
C11_EveryMatchedIssueAttempted ==
    BatchEnded =>
        /\ Len(tasks) = Len(bulkInput)
        /\ \A k \in 1..Len(tasks) :
              tasks[k].raw = bulkInput[k] /\ tasks[k].log # <<>>

(***************************************************************************)
(* Claims about fetchCommitsAndExtractIssues                               *)
(***************************************************************************)
\* C15: an issue whose status fetch failed is in neither the result nor the
\* done count and its check left consecutiveDoneCount as it was; a check that
\* took the counter down to zero found its issue in a status other than the
\* target
C15_FailedFetchKeepsCounter ==
    /\ fcLast.outcome = "failed" =>
          /\ fcLast.after = fcLast.before
          /\ ~\E i \in 1..Len(allIssueKeys) : allIssueKeys[i] = fcLast.key
    /\ (fcLast.outcome # "none" /\ fcLast.before > 0 /\ fcLast.after = 0) =>
          fcLast.outcome = "not done"

\* the number of status checks in a row, up to the latest one, that found
\* their issue at the target status
RECURSIVE TrailingDone(_)
TrailingDone(recent) ==
    IF recent = <<>> \/ recent[Len(recent)] # "done" THEN 0
    ELSE 1 + TrailingDone(SubSeq(recent, 1, Len(recent) - 1))
EarlyStop == fcArgs.threshold > 0 /\ TrailingDone(fcHistory.recent) >= fcArgs.threshold
ObservedNotDone == {o.key : o \in {x \in fcHistory.seen : x.outcome = "not done"}}
Distinct(keys) == \A i, j \in 1..Len(keys) : i # j => keys[i] # keys[j]
Scanning == fcPc \in {"page", "status", "delay"}

EmptyPage == fcHistory.lastPage = "listed" /\ commitsLength = 0
ShortPage == fcHistory.lastPage = "listed" /\ commitsLength > 0 /\ commitsLength < PER_PAGE
LimitReached == totalCommitsChecked >= 1000
ListingFailed == fcHistory.lastPage = "failed"
AtMostThousandCommits ==
    /\ totalCommitsChecked <= 1000
    /\ page <= 11
    /\ totalCommitsChecked <= (page - 1) * 100 + commitsLength
AnotherPageOnlyAfterFullPage ==
    fcPc \in {"page", "delay"} =>
        /\ ~LimitReached
        /\ ~EarlyStop
        /\ page > 1 => commitsLength = PER_PAGE

\* C38 as stated: the scan always ends and inspects at most 1000 commits, 10
\* pages of 100; it ends on an empty page, on a page shorter than 100
\* commits, on reaching the limit or on the early stop, whichever comes
\* first
C38_ScanEndsOnOneOfFour ==
    /\ [](AtMostThousandCommits /\ AnotherPageOnlyAfterFullPage)
    /\ [](fcPc = "returned" => (EmptyPage \/ ShortPage \/ LimitReached \/ EarlyStop))
    /\ Scanning ~> (fcPc = "returned")

\* C38: the scan always ends and inspects at most 1000 commits, 10 pages of
\* 100; it ends on an empty page, on a page shorter than 100 commits, on
\* reaching the limit, on the early stop, or on a commit listing that fails,
\* after which the result is empty; whichever comes first
C38_ScanEndsWithinLimit ==
    /\ [](AtMostThousandCommits /\ AnotherPageOnlyAfterFullPage)
    /\ [](fcPc = "returned" =>
            /\ EmptyPage \/ ShortPage \/ LimitReached \/ EarlyStop \/ ListingFailed
            /\ ListingFailed => fcResult = <<>>)
    /\ Scanning ~> (fcPc = "returned")

\* a scan that went through ten full pages and ended on the limit
C38_Witness ==
    /\ fcPc = "returned"
    /\ totalCommitsChecked = 1000
    /\ page = 11
    /\ ~EarlyStop
    /\ fcHistory.lastPage = "listed"

\* a scan that had collected a key when the listing of its third page failed
C38_WitnessListingFailed ==
    /\ fcPc = "returned"
    /\ ListingFailed
    /\ page = 3
    /\ allIssueKeys # <<>>
    /\ fcResult = <<>>


(***************************************************************************)
(* Claims about handlePushEvent                                            *)
(***************************************************************************)
FoundKeys ==
    {pushFound.history[i] : i \in 1..Len(pushFound.history)}
    \cup {pushFound.search[i] : i \in 1..Len(pushFound.search)}
RequestsOf(req) == SelectSeq(pushRequests, LAMBDA r : r.req = req)
WritesOf(phase) == SelectSeq(pushWrites, LAMBDA w : w.phase = phase)
KeysOf(entries) == [i \in 1..Len(entries) |-> entries[i].key]

C39_WitnessStagingMoves ==
    /\ pushBranch = "staging"
    /\ pushPc = "done"
    /\ RequestsOf("POST transition") # <<>>

====
